---- MODULE Spec2Model ----
(***************************************************************************)
(* Level generation of the rogue dungeon crawler: the tile Map, the        *)
(* reachability pruning of map_builder/common.rs, the Voronoi builder and  *)
(* the waveform-collapse pattern extractor and solver.                     *)
(*                                                                         *)
(* Distances are f32 in the source.  They are modelled as integers in      *)
(* hundredths (1.0 -> 100, 1.45 -> 145, 200.0 -> 20000), which keeps the   *)
(* order of the path costs that can occur on the grids checked here.       *)
(***************************************************************************)
EXTENDS Integers, Sequences, FiniteSets, TLC

VARIABLES
    pc,             \* position of the running build / function
    map,            \* Map: [width, height, tiles, blocked]
    start_idx,      \* index handed to the pruning, starting_position as an index
    exit_idx,       \* result of remove_unreachable_areas_returning_most_distant
    input,          \* the arguments the run started from (never changes)
    distance_algorithm,   \* VoronoiBuilder.distance_algorithm
    voronoi_seeds,        \* VoronoiBuilder::build: the seed points, <<vx, vy>>
    voronoi_membership,   \* VoronoiBuilder::build: seed index of every tile
    patterns,       \* the Vec<Vec<TileType>> build_patterns returned
    constraints,    \* Solver.constraints: the Vec<MapChunk>
    chunk_size,     \* Solver.chunk_size / the chunk_size argument
    chunks,         \* Solver.chunks: "None" or the pattern index of each slot
    remaining,      \* Solver.remaining: <<slot index, neighbour count>>
    possible,       \* Solver.possible
    builder,        \* the other fields and locals of the running builder
    returned        \* the values the calls made so far returned, in order

vars == <<pc, map, start_idx, exit_idx, input,
          distance_algorithm, voronoi_seeds, voronoi_membership,
          patterns, constraints, chunk_size, chunks, remaining, possible,
          builder, returned>>

auxVars == <<builder, returned>>

vorVars == <<distance_algorithm, voronoi_seeds, voronoi_membership>>

solverVars == <<chunks, remaining, possible>>

wfcVars == <<patterns, constraints, chunk_size, chunks, remaining, possible>>

\* The variables of a builder that is not running.
VorIdle ==
    /\ distance_algorithm = "none"
    /\ voronoi_seeds = <<>>
    /\ voronoi_membership = <<>>

WfcIdle ==
    /\ patterns = <<>>
    /\ constraints = <<>>
    /\ chunk_size = 0
    /\ chunks = <<>>
    /\ remaining = <<>>
    /\ possible = TRUE

AuxIdle ==
    /\ builder = <<>>
    /\ returned = <<>>

\* ------------------------------------------------------------------ bounds
PruneShapes == {<<4, 3>>, <<3, 4>>}   \* <<width, height>> of the pruned grids
MaxOpen == 3                          \* open tiles of a pruned grid
VorShapes == {<<5, 4>>}               \* <<width, height>> of the Voronoi grid
NSeeds == 3                           \* n_seeds of the Voronoi builder

\* ------------------------------------------------------------- TileType
Void == "Void"
Placeholder == "Placeholder"
Wall == "Wall"
Floor == "Floor"
DownStairs == "DownStairs"
TileType == {Void, Placeholder, Wall, Floor, DownStairs}

\* ------------------------------------------------------------------ Map
MapNew(width, height, fill_tile) ==
    [ width   |-> width,
      height  |-> height,
      tiles   |-> [i \in 0 .. (width * height - 1) |-> fill_tile],
      blocked |-> [i \in 0 .. (width * height - 1) |-> FALSE] ]

Indices(m) == 0 .. (m.width * m.height - 1)

xy_idx(m, x, y) == (y * m.width) + x

is_walkable(m, x, y) ==
    IF x < 1 \/ x > m.width - 1 \/ y < 1 \/ y > m.height - 1
    THEN FALSE
    ELSE ~ m.blocked[xy_idx(m, x, y)]

populate_blocked(m) ==
    [m EXCEPT !.blocked =
        [i \in Indices(m) |-> m.tiles[i] = Wall \/ m.tiles[i] = Void]]

CardinalCost == 100
DiagonalCost == 145

\* The exits of a tile, in the order the source pushes them: <<index, cost>>.
get_available_exits(m, idx) ==
    LET x == idx % m.width
        y == idx \div m.width
        w == m.width
        cand == << <<x - 1, y,     idx - 1,       CardinalCost>>,
                   <<x + 1, y,     idx + 1,       CardinalCost>>,
                   <<x,     y - 1, idx - w,       CardinalCost>>,
                   <<x,     y + 1, idx + w,       CardinalCost>>,
                   <<x - 1, y - 1, (idx - w) - 1, DiagonalCost>>,
                   <<x + 1, y - 1, (idx - w) + 1, DiagonalCost>>,
                   <<x - 1, y + 1, (idx + w) - 1, DiagonalCost>>,
                   <<x + 1, y + 1, (idx + w) + 1, DiagonalCost>> >>
        open == SelectSeq(cand, LAMBDA c : is_walkable(m, c[1], c[2]))
    IN  [k \in 1 .. Len(open) |-> <<open[k][3], open[k][4]>>]

\* ------------------------------------------------------- rltk DijkstraMap
F32_MAX == 2147483647
MaxDepth == 20000

\* The loop over the exits of one popped tile.
RECURSIVE dijkstra_exits(_, _, _, _)
dijkstra_exits(st, exits, depth, max_depth) ==
    IF exits = <<>> THEN st
    ELSE LET new_idx   == Head(exits)[1]
             new_depth == depth + Head(exits)[2]
         IN  IF new_depth >= st.dm[new_idx] \/ new_depth >= max_depth
             THEN dijkstra_exits(st, Tail(exits), depth, max_depth)
             ELSE dijkstra_exits(
                    [ dm   |-> [st.dm EXCEPT ![new_idx] = new_depth],
                      open |-> Append(st.open, <<new_idx, new_depth>>) ],
                    Tail(exits), depth, max_depth)

\* The loop over the open list (a FIFO queue): at most `passes` of its passes.
RECURSIVE dijkstra_passes(_, _, _, _)
dijkstra_passes(m, st, max_depth, passes) ==
    IF st.open = <<>> \/ passes = 0 THEN st
    ELSE dijkstra_passes(m,
            dijkstra_exits([dm |-> st.dm, open |-> Tail(st.open)],
                           get_available_exits(m, Head(st.open)[1]),
                           Head(st.open)[2], max_depth),
            max_depth, passes - 1)

\* The whole loop, evaluated sixteen passes at a time.
RECURSIVE dijkstra_build(_, _, _)
dijkstra_build(m, st, max_depth) ==
    IF st.open = <<>> THEN st.dm
    ELSE dijkstra_build(m, dijkstra_passes(m, st, max_depth, 16), max_depth)

\* DijkstraMap::new(width, height, &[start], map, max_depth).map
\* Releases of rltk differ in whether the start tile itself is stored as 0.0
\* or is only pushed on the open list: zero chooses between the two.
DijkstraMap(m, start, max_depth, zero) ==
    dijkstra_build(m,
        [ dm   |-> [i \in Indices(m) |->
                       IF zero /\ i = start THEN 0 ELSE F32_MAX],
          open |-> << <<start, 0>> >> ],
        max_depth)

\* ------------------------------------------- map_builder/common.rs pruning
\* The scan of the tiles for the most distant one: exit_tile = (index, distance).
\* One pass of the loop, for the tile i.
exit_step(m, dm, i, exit_tile) ==
    IF m.tiles[i] # Floor \/ dm[i] = F32_MAX THEN exit_tile
    ELSE IF dm[i] > exit_tile[2] THEN <<i, dm[i]>>
    ELSE exit_tile

\* The passes for the tiles lo .. hi - 1 in order, evaluated by halves.
RECURSIVE exit_scan_range(_, _, _, _, _)
exit_scan_range(m, dm, lo, hi, exit_tile) ==
    IF lo >= hi THEN exit_tile
    ELSE IF hi = lo + 1 THEN exit_step(m, dm, lo, exit_tile)
    ELSE LET mid == (lo + hi) \div 2
             first == exit_scan_range(m, dm, lo, mid, exit_tile)
         IN  IF first[1] >= 0
             THEN exit_scan_range(m, dm, mid, hi, first)
             ELSE first

exit_scan(m, dm, i, exit_tile) ==
    exit_scan_range(m, dm, i, m.width * m.height, exit_tile)

\* A variant of the pruning that keeps every Floor tile.
prune_tiles_keep_all(m, dm) == m.tiles

\* The tiles after the loop: a Floor tile with no distance becomes Wall.
prune_tiles(m, dm) ==
    [i \in Indices(m) |->
        IF m.tiles[i] = Floor /\ dm[i] = F32_MAX THEN Wall ELSE m.tiles[i]]

\* Returns the map as the function leaves it and the index it returns.
remove_unreachable_areas_returning_most_distant(m, start, zero) ==
    LET mb == populate_blocked(m)
        dm == DijkstraMap(mb, start, MaxDepth, zero)
    IN  [ map  |-> [mb EXCEPT !.tiles = prune_tiles(mb, dm)],
          exit |-> exit_scan(mb, dm, 0, <<0, 0>>)[1] ]

\* ------------------------------------------------ graph facts for the claims
XOf(m, i) == i % m.width
YOf(m, i) == i \div m.width
Abs(n) == IF n < 0 THEN -n ELSE n

Adjacent8(m, i, j) ==
    /\ i # j
    /\ Abs(XOf(m, i) - XOf(m, j)) <= 1
    /\ Abs(YOf(m, i) - YOf(m, j)) <= 1

\* The tiles that an 8-directional path from a tile of `seen` can visit when
\* every tile it steps on has a kind in `kinds`.
RECURSIVE ReachVia(_, _, _)
ReachVia(m, seen, kinds) ==
    LET more == { j \in Indices(m) \ seen :
                    /\ m.tiles[j] \in kinds
                    /\ \E i \in seen : Adjacent8(m, i, j) }
    IN  IF more = {} THEN seen ELSE ReachVia(m, seen \cup more, kinds)

\* Paths whose tiles, the start tile included, are all Floor.
FloorReach(m, start) ==
    IF m.tiles[start] = Floor THEN ReachVia(m, {start}, {Floor}) ELSE {}

\* Paths whose tiles after the start tile are neither Wall nor Void.
OpenReach(m, start) == ReachVia(m, {start}, TileType \ {Wall, Void})

\* ======================================================= pruning on its own
\* The subsets of S with at most k members.
RECURSIVE SubsetsUpTo(_, _)
SubsetsUpTo(S, k) ==
    IF k = 0 THEN {{}}
    ELSE LET prev == SubsetsUpTo(S, k - 1)
         IN  prev \cup {s \cup {x} : s \in prev, x \in S}

\* Grids of Wall with at most MaxOpen open tiles, one of which may be a
\* DownStairs tile instead of a Floor tile.
PruneGrids(w, h) ==
    UNION { { [MapNew(w, h, Wall) EXCEPT
                 !.tiles = [i \in 0 .. (w * h - 1) |->
                               IF i \in other THEN DownStairs
                               ELSE IF i \in open THEN Floor ELSE Wall]] :
                other \in {{}} \cup {{i} : i \in open} } :
            open \in SubsetsUpTo(0 .. (w * h - 1), MaxOpen) }

InitPrune ==
    /\ pc = "prune_call"
    /\ \E shape \in PruneShapes : map \in PruneGrids(shape[1], shape[2])
    /\ start_idx \in Indices(map)
    /\ exit_idx = 0
    /\ input = [map |-> map, start |-> start_idx]
    /\ VorIdle
    /\ WfcIdle
    /\ AuxIdle

PruneCall ==
    /\ pc = "prune_call"
    /\ \E zero \in BOOLEAN :
         LET r == remove_unreachable_areas_returning_most_distant(map, start_idx, zero)
         IN  /\ map' = r.map
             /\ exit_idx' = r.exit
    /\ pc' = "pruned"
    /\ UNCHANGED <<start_idx, input, vorVars, wfcVars, auxVars>>

NextPrune == PruneCall

SpecPrune == InitPrune /\ [][NextPrune]_vars

\* C1 (as stated): after the pruning, every tile that is still Floor has a path
\* from the start tile that visits only Floor tiles.
C1_FloorOnlyPath ==
    pc = "pruned" =>
        \A i \in Indices(map) :
            map.tiles[i] = Floor => i \in FloorReach(map, start_idx)

\* C1 (amended): after the pruning, every tile that is still Floor is the start
\* tile or has an 8-directional path from the start tile whose tiles after the
\* start tile are neither Wall nor Void.
C1_OpenPath ==
    pc = "pruned" =>
        \A i \in Indices(map) :
            map.tiles[i] = Floor => i \in OpenReach(map, start_idx)

\* A pruning that removed a Floor pocket and kept a connected Floor tile.
C1_Witness ==
    /\ pc = "pruned"
    /\ \E i \in Indices(map) : input.map.tiles[i] = Floor /\ map.tiles[i] = Wall
    /\ \E i \in Indices(map) : i # start_idx /\ map.tiles[i] = Floor

\* ============================================================ VoronoiBuilder
Pythagoras == "Pythagoras"
Manhattan == "Manhattan"
Chebyshev == "Chebyshev"
DistanceAlgorithm == {Pythagoras, Manhattan, Chebyshev}

Max2(a, b) == IF a > b THEN a ELSE b

\* rltk::DistanceAlg::{PythagorasSquared, Manhattan, Chebyshev}.distance2d
distance2d(alg, x, y, pos) ==
    LET dx == Abs(x - pos[1])
        dy == Abs(y - pos[2])
    IN  CASE alg = Pythagoras -> (dx * dx) + (dy * dy)
          [] alg = Manhattan  -> dx + dy
          [] OTHER            -> Max2(dx, dy)

\* The seed a tile is given: voronoi_distance is filled in seed order and
\* sorted by distance with a stable sort, and entry 0 is taken, which is the
\* first seed among those at the least distance.  Seeds are numbered from 0.
\* The row of tile i is computed with the height, as in the source.
voronoi_member(m, alg, seeds, i) ==
    LET x == i % m.width
        y == i \div m.height
        dist == [s \in 1 .. Len(seeds) |-> distance2d(alg, x, y, seeds[s])]
        least == CHOOSE d \in {dist[s] : s \in 1 .. Len(seeds)} :
                    \A s \in 1 .. Len(seeds) : d <= dist[s]
        first == CHOOSE s \in 1 .. Len(seeds) :
                    /\ dist[s] = least
                    /\ \A t \in 1 .. (s - 1) : dist[t] # least
    IN  first - 1

\* A variant that counts the neighbours of the tile's own seed.
voronoi_neighbours_same(m, membership, x, y) ==
    LET seed == membership[xy_idx(m, x, y)]
        n(i) == IF membership[i] = seed THEN 1 ELSE 0
    IN  n(xy_idx(m, x - 1, y)) + n(xy_idx(m, x + 1, y))
          + n(xy_idx(m, x, y - 1)) + n(xy_idx(m, x, y + 1))

\* How many of the four cardinal neighbours belong to another seed.
voronoi_neighbours(m, membership, x, y) ==
    LET seed == membership[xy_idx(m, x, y)]
        n(i) == IF membership[i] # seed THEN 1 ELSE 0
    IN  n(xy_idx(m, x - 1, y)) + n(xy_idx(m, x + 1, y))
          + n(xy_idx(m, x, y - 1)) + n(xy_idx(m, x, y + 1))

\* The carving loop over the interior tiles.
voronoi_carve(m, membership) ==
    [m EXCEPT !.tiles =
        [i \in Indices(m) |->
            LET x == i % m.width
                y == i \div m.width
            IN  IF /\ 1 <= x /\ x < m.width - 1
                   /\ 1 <= y /\ y < m.height - 1
                   /\ voronoi_neighbours(m, membership, x, y) < 2
                THEN Floor
                ELSE m.tiles[i]]]

\* --------------------------------------------- generate_voronoi_spawn_regions
\* The values noise.get_noise(x, y) * 10240. as i32 may take.
NoiseCells == {-1, 0, 1}

\* A variant that starts a new list on every push.
noise_push_overwrites(noise_areas, cell_value, idx) ==
    [k \in DOMAIN noise_areas \cup {cell_value} |->
        IF k = cell_value THEN <<idx>> ELSE noise_areas[k]]

\* The body of the loops for one Floor tile: push idx on the list of its
\* cell value, inserting the list when the key is new.
noise_push(noise_areas, cell_value, idx) ==
    [k \in DOMAIN noise_areas \cup {cell_value} |->
        IF k = cell_value
        THEN IF cell_value \in DOMAIN noise_areas
             THEN Append(noise_areas[cell_value], idx)
             ELSE <<idx>>
        ELSE noise_areas[k]]

\* The loops over y in 1 .. height - 1 and x in 1 .. width - 1 (both ends
\* exclusive), from the n-th tile they visit on.
RECURSIVE spawn_regions_from(_, _, _, _)
spawn_regions_from(m, noise, n, noise_areas) ==
    IF m.width < 3 \/ n >= (m.width - 2) * (m.height - 2) THEN noise_areas
    ELSE LET x == 1 + (n % (m.width - 2))
             y == 1 + (n \div (m.width - 2))
             idx == xy_idx(m, x, y)
         IN  IF m.tiles[idx] # Floor
             THEN spawn_regions_from(m, noise, n + 1, noise_areas)
             ELSE spawn_regions_from(m, noise, n + 1,
                                     noise_push(noise_areas, noise[idx], idx))

\* The HashMap<i32, Vec<usize>> is a function from its keys to their lists.
generate_voronoi_spawn_regions(m, noise) ==
    spawn_regions_from(m, noise, 0, [k \in {} |-> <<>>])

\* The tiles the loops read the noise for.
InteriorFloor(m) ==
    {i \in Indices(m) : /\ m.tiles[i] = Floor
                        /\ 1 <= i % m.width /\ i % m.width < m.width - 1
                        /\ 1 <= i \div m.width /\ i \div m.width < m.height - 1}

NoisePeriod == 2                      \* period of the noise fields of a build

\* The noise fields of a build: one value per residue of x + y.
MazeNoise(m) ==
    { [i \in InteriorFloor(m) |-> f[((i % m.width) + (i \div m.width)) % NoisePeriod]] :
        f \in [0 .. (NoisePeriod - 1) -> NoiseCells] }

InitVoronoi ==
    /\ pc = "vor_seeds"
    /\ \E shape \in VorShapes : map = MapNew(shape[1], shape[2], Wall)
    /\ start_idx = xy_idx(map, map.width \div 2, map.height \div 2)
    /\ exit_idx = 0
    /\ distance_algorithm \in DistanceAlgorithm
    /\ voronoi_seeds = <<>>
    /\ voronoi_membership = [i \in Indices(map) |-> 0]
    /\ input = [map |-> map, start |-> start_idx]
    /\ builder = [ noise_areas |-> [k \in {} |-> <<>>] ]
    /\ returned = <<>>
    /\ WfcIdle

\* One pass of the seeding loop that found a new candidate.
VorAddSeed ==
    /\ pc = "vor_seeds"
    /\ Len(voronoi_seeds) < NSeeds
    /\ \E vx \in 1 .. (map.width - 1), vy \in 1 .. (map.height * 2 - 1) :
          /\ \A s \in 1 .. Len(voronoi_seeds) : voronoi_seeds[s] # <<vx, vy>>
          /\ voronoi_seeds' = Append(voronoi_seeds, <<vx, vy>>)
    /\ UNCHANGED <<pc, map, start_idx, exit_idx, input,
                   distance_algorithm, voronoi_membership, wfcVars, auxVars>>

\* The membership loop.
VorAssign ==
    /\ pc = "vor_seeds"
    /\ Len(voronoi_seeds) = NSeeds
    /\ voronoi_membership' =
          [i \in Indices(map) |->
              voronoi_member(map, distance_algorithm, voronoi_seeds, i)]
    /\ pc' = "vor_carve"
    /\ UNCHANGED <<map, start_idx, exit_idx, input,
                   distance_algorithm, voronoi_seeds, wfcVars, auxVars>>

VorCarve ==
    /\ pc = "vor_carve"
    /\ map' = voronoi_carve(map, voronoi_membership)
    /\ pc' = "vor_prune"
    /\ UNCHANGED <<start_idx, exit_idx, input, vorVars, wfcVars, auxVars>>

VorPrune ==
    /\ pc = "vor_prune"
    /\ \E zero \in BOOLEAN :
         LET r == remove_unreachable_areas_returning_most_distant(map, start_idx, zero)
         IN  /\ map' = r.map
             /\ exit_idx' = r.exit
    /\ pc' = "vor_stairs"
    /\ UNCHANGED <<start_idx, input, vorVars, wfcVars, auxVars>>

VorStairs ==
    /\ pc = "vor_stairs"
    /\ map' = [map EXCEPT !.tiles[exit_idx] = DownStairs]
    /\ pc' = "vor_regions"
    /\ UNCHANGED <<start_idx, exit_idx, input, vorVars, wfcVars, auxVars>>

\* The noise map for entity spawning, the last statement of build().
VorRegions ==
    /\ pc = "vor_regions"
    /\ \E noise \in MazeNoise(map) :
          builder' = [builder EXCEPT
                         !.noise_areas = generate_voronoi_spawn_regions(map, noise)]
    /\ pc' = "built"
    /\ UNCHANGED <<map, start_idx, exit_idx, input, vorVars, wfcVars, returned>>

NextVoronoi ==
    \/ VorAddSeed
    \/ VorAssign
    \/ VorCarve
    \/ VorPrune
    \/ VorStairs
    \/ VorRegions

SpecVoronoi == InitVoronoi /\ [][NextVoronoi]_vars

StairsTiles(m) == {i \in Indices(m) : m.tiles[i] = DownStairs}

\* C2: after build(), the finished Grid has exactly one DownStairs tile and
\* that tile is reachable from the starting position.
C2_OneReachableStairs ==
    pc = "built" =>
        /\ Cardinality(StairsTiles(map)) = 1
        /\ StairsTiles(map) \subseteq OpenReach(map, start_idx)

\* C3: after build(), the tile at the starting position is Floor and every
\* other Floor tile of the finished Grid is connected to it.
C3_StartIsFloorAndConnected ==
    pc = "built" =>
        /\ map.tiles[start_idx] = Floor
        /\ \A i \in Indices(map) :
              map.tiles[i] = Floor => i \in FloorReach(map, start_idx)

\* ===================================== waveform_collapse: pattern extractor
\* A Rust Vec is a sequence; v[i] of the source is At(v, i).
At(v, i) == v[i + 1]

\* waveform_collapse/common.rs
tile_idx_in_chunk(size, x, y) == (y * size) + x

\* The four ways the tiles of the chunk at start_x .. end_x, start_y .. end_y
\* are read: the coordinate read for the cell (x, y) of the double loop.
flip_x(mode, x, end_x) ==
    IF mode = "horizontal" \/ mode = "both" THEN end_x - (x + 1) ELSE x

flip_y(mode, y, end_y) ==
    IF mode = "vertical" \/ mode = "both" THEN end_y - (y + 1) ELSE y

\* One pattern: the double loop over y in start_y .. end_y and x in
\* start_x .. end_x, pushing one tile per cell.
chunk_pattern(m, size, cx, cy, mode) ==
    LET start_x == cx * size
        end_x   == (cx + 1) * size
        start_y == cy * size
        end_y   == (cy + 1) * size
    IN  [k \in 1 .. (size * size) |->
            LET x == start_x + ((k - 1) % size)
                y == start_y + ((k - 1) \div size)
            IN  m.tiles[xy_idx(m, flip_x(mode, x, end_x), flip_y(mode, y, end_y))]]

\* The patterns pushed for the chunks n, n + 1, ... in the order of the loops
\* (cy outer, cx inner).
RECURSIVE patterns_from(_, _, _, _)
patterns_from(m, size, include_flipping, n) ==
    LET chunks_x == m.width \div size
        chunks_y == m.height \div size
        cx == n % chunks_x
        cy == n \div chunks_x
    IN  IF n >= chunks_x * chunks_y THEN <<>>
        ELSE (IF include_flipping
              THEN << chunk_pattern(m, size, cx, cy, "normal"),
                      chunk_pattern(m, size, cx, cy, "horizontal"),
                      chunk_pattern(m, size, cx, cy, "vertical"),
                      chunk_pattern(m, size, cx, cy, "both") >>
              ELSE << chunk_pattern(m, size, cx, cy, "normal") >>)
             \o patterns_from(m, size, include_flipping, n + 1)

\* build_patterns before the dedupe step.
build_patterns_list(m, size, include_flipping) ==
    patterns_from(m, size, include_flipping, 0)

SeqRange(s) == {s[k] : k \in 1 .. Len(s)}

\* The sequences that list every member of S once: the orders in which a
\* HashSet may be iterated.
Orderings(S) ==
    {s \in [1 .. Cardinality(S) -> S] : SeqRange(s) = S}

\* A variant that returns the list as built, duplicates included.
build_patterns_no_dedupe(m, size, include_flipping, dedupe) ==
    {build_patterns_list(m, size, include_flipping)}

\* build_patterns: the possible results.
build_patterns(m, size, include_flipping, dedupe) ==
    LET list == build_patterns_list(m, size, include_flipping)
    IN  IF dedupe THEN Orderings(SeqRange(list)) ELSE {list}

\* ------------------------------------------------- patterns_to_constraints
\* Directions: 0 north, 1 south, 2 west, 3 east.
\* The border cell of a side that entry x of its exit bitmap looks at.
exit_cell(size, direction, x) ==
    CASE direction = 0 -> tile_idx_in_chunk(size, x, 0)
      [] direction = 1 -> tile_idx_in_chunk(size, x, size - 1)
      [] direction = 2 -> tile_idx_in_chunk(size, 0, x)
      [] OTHER         -> tile_idx_in_chunk(size, size - 1, x)

\* A variant that reads the north row for the south side too.
chunk_exits_north_twice(pattern, size) ==
    [d \in 1 .. 4 |->
        [x \in 1 .. size |->
            At(pattern, exit_cell(size, IF d = 2 THEN 0 ELSE d - 1, x - 1)) = Floor]]

\* exits of a new chunk: four bitmaps of chunk_size entries.
chunk_exits(pattern, size) ==
    [d \in 1 .. 4 |->
        [x \in 1 .. size |->
            At(pattern, exit_cell(size, d - 1, x - 1)) = Floor]]

\* n_exits of a new chunk.
n_exits(exits) ==
    Cardinality({<<d, x>> \in (1 .. 4) \X (1 .. Len(exits[1])) : exits[d][x]})

\* The first loop: a chunk per pattern, compatible_with still empty.
new_chunk(pattern, size) ==
    LET exits == chunk_exits(pattern, size)
    IN  [ pattern         |-> pattern,
          exits           |-> exits,
          has_exits       |-> n_exits(exits) # 0,
          compatible_with |-> << <<>>, <<>>, <<>>, <<>> >> ]

opposite(direction) ==
    CASE direction = 0 -> 1
      [] direction = 1 -> 0
      [] direction = 2 -> 3
      [] OTHER         -> 2

\* The loop over the slots of one exit list against one potential neighbour
\* j: what it pushes on compatible_with[direction].
RECURSIVE slot_pushes(_, _, _, _, _, _)
slot_pushes(exit_list, other_list, j, slot, it_fits, has_any) ==
    IF slot >= Len(exit_list) THEN <<>>
    ELSE LET can_enter == At(exit_list, slot)
             any == has_any \/ can_enter
             fits == it_fits \/ (can_enter /\ At(other_list, slot))
             all_open == \A k \in 1 .. Len(other_list) : other_list[k]
         IN  (IF fits THEN <<j>> ELSE <<>>)
             \o (IF ~any /\ all_open THEN <<j>> ELSE <<>>)
             \o slot_pushes(exit_list, other_list, j, slot + 1, fits, any)

\* A variant without the wildcard for chunks that have no exits.
compat_pushes_no_wildcard(c, potential, j, direction) ==
    slot_pushes(At(c.exits, direction),
                At(potential.exits, opposite(direction)), j, 0, FALSE, FALSE)

\* What the potential neighbour j adds to compatible_with[direction] of c.
compat_pushes(c, potential, j, direction) ==
    IF ~c.has_exits \/ ~potential.has_exits
    THEN <<j>>
    ELSE slot_pushes(At(c.exits, direction),
                     At(potential.exits, opposite(direction)), j, 0, FALSE, FALSE)

RECURSIVE compat_list(_, _, _, _)
compat_list(c, ch, j, direction) ==
    IF j >= Len(ch) THEN <<>>
    ELSE compat_pushes(c, At(ch, j), j, direction)
         \o compat_list(c, ch, j + 1, direction)

patterns_to_constraints(pats, size) ==
    LET ch == [k \in 1 .. Len(pats) |-> new_chunk(pats[k], size)]
    IN  [k \in 1 .. Len(ch) |->
            [ch[k] EXCEPT !.compatible_with =
                [d \in 1 .. 4 |-> compat_list(ch[k], ch, 0, d - 1)]]]

\* ------------------------------------------- the pattern extractor on its own
\* <<width, height, chunk_size>> of the checked runs
PatShapes == {<<4, 2, 2>>, <<2, 4, 2>>, <<3, 3, 3>>}
MaxDedupe == 3                        \* distinct patterns of a deduped run

PatternTiles == {Wall, Floor}

\* A source Grid with the given tiles, row-major.
SourceMap(w, h, tiles) ==
    [MapNew(w, h, Wall) EXCEPT !.tiles = tiles]

InitPatterns ==
    /\ pc = "pat_call"
    /\ \E shape \in PatShapes :
          \E tiles \in [0 .. (shape[1] * shape[2] - 1) -> PatternTiles] :
              /\ map = SourceMap(shape[1], shape[2], tiles)
              /\ chunk_size = shape[3]
    /\ \E include_flipping \in BOOLEAN, dedupe \in BOOLEAN :
          /\ input = [ map |-> map, include_flipping |-> include_flipping,
                       dedupe |-> dedupe ]
          /\ dedupe =>
                Cardinality(SeqRange(
                    build_patterns_list(map, chunk_size, include_flipping))) <= MaxDedupe
    /\ start_idx = 0
    /\ exit_idx = 0
    /\ patterns = <<>>
    /\ constraints = <<>>
    /\ chunks = <<>>
    /\ remaining = <<>>
    /\ possible = TRUE
    /\ VorIdle
    /\ AuxIdle

BuildPatterns ==
    /\ pc = "pat_call"
    /\ patterns' \in build_patterns(map, chunk_size,
                                    input.include_flipping, input.dedupe)
    /\ pc' = "pat_built"
    /\ UNCHANGED <<map, start_idx, exit_idx, input, vorVars,
                   constraints, chunk_size, solverVars, auxVars>>

PatternsToConstraints ==
    /\ pc = "pat_built"
    /\ constraints' = patterns_to_constraints(patterns, chunk_size)
    /\ pc' = "pat_constrained"
    /\ UNCHANGED <<map, start_idx, exit_idx, input, vorVars,
                   patterns, chunk_size, solverVars, auxVars>>

NextPatterns ==
    \/ BuildPatterns
    \/ PatternsToConstraints

SpecPatterns == InitPatterns /\ [][NextPatterns]_vars

\* The cell at column x, row y of a pattern of side n.
Cell(p, n, x, y) == p[(y * n) + x + 1]

\* The border cell that entry i of the bitmap of a side stands for.
BorderCell(p, n, side, i) ==
    CASE side = "north" -> Cell(p, n, i, 0)
      [] side = "south" -> Cell(p, n, i, n - 1)
      [] side = "west"  -> Cell(p, n, 0, i)
      [] OTHER          -> Cell(p, n, n - 1, i)

SideOf(d) == <<"north", "south", "west", "east">>[d]

\* C9: every exit bitmap has chunk_size entries, entry i is true exactly when
\* border cell i of that side is Floor, has_exits is false exactly when no side
\* has an open cell, and an all-Floor pattern has has_exits and four full bitmaps.
C9_ExitBitmaps ==
    pc = "pat_constrained" =>
        /\ Len(constraints) = Len(patterns)
        /\ \A j \in 1 .. Len(constraints) :
              LET c == constraints[j]
              IN  /\ c.pattern = patterns[j]
                  /\ Len(c.exits) = 4
                  /\ \A d \in 1 .. 4 :
                        /\ Len(c.exits[d]) = chunk_size
                        /\ \A i \in 0 .. (chunk_size - 1) :
                              c.exits[d][i + 1] =
                                  (BorderCell(c.pattern, chunk_size, SideOf(d), i) = Floor)
                  /\ c.has_exits =
                        (\E d \in 1 .. 4, i \in 1 .. chunk_size : c.exits[d][i])
                  /\ (\A k \in 1 .. Len(c.pattern) : c.pattern[k] = Floor) =>
                        /\ c.has_exits
                        /\ \A d \in 1 .. 4, i \in 1 .. chunk_size : c.exits[d][i]

\* A table with an all-Floor pattern and a pattern whose south side is open
\* where its north side is closed.
C9_Witness ==
    /\ pc = "pat_constrained"
    /\ \E j \in 1 .. Len(constraints) :
          \A k \in 1 .. Len(constraints[j].pattern) : constraints[j].pattern[k] = Floor
    /\ \E j \in 1 .. Len(constraints), i \in 1 .. chunk_size :
          constraints[j].exits[2][i] /\ ~ constraints[j].exits[1][i]

\* The mirrors of a pattern of side n.
MirrorH(p, n) == [k \in 1 .. Len(p) |-> Cell(p, n, (n - 1) - ((k - 1) % n), (k - 1) \div n)]
MirrorV(p, n) == [k \in 1 .. Len(p) |-> Cell(p, n, (k - 1) % n, (n - 1) - ((k - 1) \div n))]
MirrorBoth(p, n) == MirrorH(MirrorV(p, n), n)

\* The tiles of the chunk (cx, cy) of a Grid, row by row.
OwnTiles(m, n, cx, cy) ==
    [k \in 1 .. (n * n) |->
        m.tiles[((cy * n) + ((k - 1) \div n)) * m.width + (cx * n) + ((k - 1) % n)]]

\* C10: without dedupe, build_patterns with include_flipping emits for every
\* chunk its own tiles and the horizontal, vertical and both-axis mirrors of
\* those tiles, and without include_flipping exactly one pattern per chunk.
C10_FlipsOfSameChunk ==
    (pc = "pat_built" /\ ~ input.dedupe) =>
        LET n == chunk_size
            cxs == map.width \div n
            cys == map.height \div n
            per == IF input.include_flipping THEN 4 ELSE 1
        IN  /\ Len(patterns) = per * cxs * cys
            /\ \A cx \in 0 .. (cxs - 1), cy \in 0 .. (cys - 1) :
                  LET own == OwnTiles(map, n, cx, cy)
                      at == per * ((cy * cxs) + cx)
                  IN  /\ patterns[at + 1] = own
                      /\ input.include_flipping =>
                            /\ patterns[at + 2] = MirrorH(own, n)
                            /\ patterns[at + 3] = MirrorV(own, n)
                            /\ patterns[at + 4] = MirrorBoth(own, n)


\* ------------------------------------------------------------------ Solver
\* Option<usize>: None is the empty sequence, Some(n) is <<n>>.
None == <<>>
Some(n) == <<n>>

chunks_x(m, size) == m.width \div size
chunks_y(m, size) == m.height \div size

\* Solver::new: every slot empty, every slot on the worklist with count 0.
SolverNew(m, size) ==
    LET n == chunks_x(m, size) * chunks_y(m, size)
    IN  [ chunks    |-> [k \in 1 .. n |-> None],
          remaining |-> [k \in 1 .. n |-> <<k - 1, 0>>],
          possible  |-> TRUE ]

chunk_idx(m, size, x, y) == (y * chunks_x(m, size)) + x

\* A variant that reads the list of the side that faces away from the slot.
neighbour_slots_far_side(m, size, chunk_x, chunk_y) ==
    (IF chunk_x > 0
        THEN << <<chunk_idx(m, size, chunk_x - 1, chunk_y), 2>> >> ELSE <<>>)
    \o (IF chunk_x < chunks_x(m, size) - 1
        THEN << <<chunk_idx(m, size, chunk_x + 1, chunk_y), 3>> >> ELSE <<>>)
    \o (IF chunk_y > 0
        THEN << <<chunk_idx(m, size, chunk_x, chunk_y - 1), 0>> >> ELSE <<>>)
    \o (IF chunk_y < chunks_y(m, size) - 1
        THEN << <<chunk_idx(m, size, chunk_x, chunk_y + 1), 1>> >> ELSE <<>>)

\* The slots next to (chunk_x, chunk_y), in the order the code visits them:
\* left, right, up, down; each with the side of the NEIGHBOUR that faces the
\* slot (3 east, 2 west, 1 south, 0 north).
neighbour_slots(m, size, chunk_x, chunk_y) ==
    (IF chunk_x > 0
        THEN << <<chunk_idx(m, size, chunk_x - 1, chunk_y), 3>> >> ELSE <<>>)
    \o (IF chunk_x < chunks_x(m, size) - 1
        THEN << <<chunk_idx(m, size, chunk_x + 1, chunk_y), 2>> >> ELSE <<>>)
    \o (IF chunk_y > 0
        THEN << <<chunk_idx(m, size, chunk_x, chunk_y - 1), 1>> >> ELSE <<>>)
    \o (IF chunk_y < chunks_y(m, size) - 1
        THEN << <<chunk_idx(m, size, chunk_x, chunk_y + 1), 0>> >> ELSE <<>>)

count_neighbours(ch, m, size, chunk_x, chunk_y) ==
    LET ns == neighbour_slots(m, size, chunk_x, chunk_y)
    IN  Cardinality({k \in 1 .. Len(ns) : At(ch, ns[k][1]) # None})

\* The worklist with the neighbour count of every entry recomputed.
populate_counts(rem, ch, m, size) ==
    [k \in 1 .. Len(rem) |->
        LET idx == rem[k][1]
        IN  <<idx, count_neighbours(ch, m, size,
                                    idx % chunks_x(m, size),
                                    idx \div chunks_x(m, size))>>]

\* sort_by(|a, b| b.1.cmp(&a.1)): a stable sort, most neighbours first.
RECURSIVE insert_desc(_, _)
insert_desc(sorted, r) ==
    IF sorted = <<>> THEN <<r>>
    ELSE IF Head(sorted)[2] >= r[2]
         THEN <<Head(sorted)>> \o insert_desc(Tail(sorted), r)
         ELSE <<r>> \o sorted

\* A variant that leaves the worklist in the order it has.
sort_kept(rem) == rem

RECURSIVE sort_desc(_)
sort_desc(rem) ==
    IF rem = <<>> THEN <<>>
    ELSE insert_desc(sort_desc(SubSeq(rem, 1, Len(rem) - 1)), rem[Len(rem)])

\* A worklist that keeps the entry it was asked to remove.
remove_keeps_entry(rem, index) == rem

\* A variant that always takes the first entry off.
remove_first(rem, index) == Tail(rem)

\* Vec::remove(index), index counted from 0.
remove(rem, index) ==
    SubSeq(rem, 1, index) \o SubSeq(rem, index + 2, Len(rem))

\* options: the compatibility lists of the filled neighbours of a slot.
gather_options(cons, ch, m, size, chunk_x, chunk_y) ==
    LET ns == neighbour_slots(m, size, chunk_x, chunk_y)
        filled == SelectSeq(ns, LAMBDA n : At(ch, n[1]) # None)
    IN  [k \in 1 .. Len(filled) |->
            At(At(cons, At(ch, filled[k][1])[1]).compatible_with, filled[k][2])]

\* possible_options: the members of options_to_check that every list holds.
\* The Vec is filled in the iteration order of a HashSet; only its length is
\* read afterwards.
possible_options(options) ==
    LET options_to_check == UNION {SeqRange(options[k]) : k \in 1 .. Len(options)}
    IN  {i \in options_to_check :
            \A k \in 1 .. Len(options) : i \in SeqRange(options[k])}

\* Blit chunk to map.
blit(m, cons, size, chunk_x, chunk_y, new_chunk_idx) ==
    LET left == chunk_x * size
        right == (chunk_x + 1) * size
        top == chunk_y * size
        bottom == (chunk_y + 1) * size
        written == {xy_idx(m, x, y) : x \in left .. (right - 1), y \in top .. (bottom - 1)}
    IN  [m EXCEPT !.tiles =
            [idx \in DOMAIN m.tiles |->
                IF idx \in written
                THEN LET x == idx % m.width
                         y == idx \div m.width
                     IN  At(At(cons, new_chunk_idx).pattern,
                            ((y - top) * size) + (x - left))
                ELSE m.tiles[idx]]]


\* The contradiction branch: possible is cleared, the slots are left alone.
contradiction_clears_slots(ch) ==
    [ chunks |-> [k \in 1 .. Len(ch) |-> None], possible |-> FALSE ]

contradiction(ch) ==
    [ chunks |-> ch, possible |-> FALSE ]

\* new_chunk_idx when the slot has filled neighbours: 0 for a single possible
\* option, else roll_dice(1, possible_options.len()) - 1.
new_chunk_idx_rolls(n_possible) ==
    IF n_possible = 1 THEN {0} ELSE 0 .. (n_possible - 1)

\* ---------------------------------------------------- the Solver on its own
\* <<width, height, chunk_size>> of the target Grid
SolverShapes == {<<4, 4, 2>>, <<6, 2, 2>>}
MaxPatterns == 2                      \* patterns of a constraint table

\* The tables of 1 .. MaxPatterns distinct patterns of side size.
PatternTables(size) ==
    LET P == [1 .. (size * size) -> PatternTiles]
    IN  UNION {{t \in [1 .. n -> P] : \A a, b \in 1 .. n : a # b => t[a] # t[b]} :
                n \in 1 .. MaxPatterns}

\* A new Solver over an empty target Grid and a constraint table.
SolverStart ==
    /\ pc = "solving"
    /\ \E shape \in SolverShapes :
          /\ map = MapNew(shape[1], shape[2], Wall)
          /\ chunk_size = shape[3]
    /\ patterns \in PatternTables(chunk_size)
    /\ constraints = patterns_to_constraints(patterns, chunk_size)
    /\ chunks = SolverNew(map, chunk_size).chunks
    /\ remaining = SolverNew(map, chunk_size).remaining
    /\ possible = SolverNew(map, chunk_size).possible
    /\ input = [ patterns |-> patterns ]
    /\ start_idx = 0
    /\ exit_idx = 0
    /\ VorIdle

InitSolver ==
    /\ SolverStart
    /\ AuxIdle

\* One call of Solver::iteration; pc = "solved" once it has returned true.
SolverStep ==
    /\ pc = "solving"
    /\ IF remaining = <<>>
       THEN /\ pc' = "solved"
            /\ UNCHANGED <<map, chunks, remaining, possible>>
       ELSE LET remain_copy == sort_desc(populate_counts(remaining, chunks, map, chunk_size))
                neighbours_exist == \E k \in 1 .. Len(remain_copy) : remain_copy[k][2] > 0
            IN  \E remaining_index \in
                      (IF ~neighbours_exist THEN 0 .. (Len(remain_copy) - 1) ELSE {0}) :
                  LET chunk_index == At(remain_copy, remaining_index)[1]
                      chunk_x == chunk_index % chunks_x(map, chunk_size)
                      chunk_y == chunk_index \div chunks_x(map, chunk_size)
                      options == gather_options(constraints, chunks, map, chunk_size,
                                                chunk_x, chunk_y)
                      candidates ==
                          IF Len(options) = 0
                          THEN 0 .. (Len(constraints) - 1)
                          ELSE new_chunk_idx_rolls(Cardinality(possible_options(options)))
                  IN  /\ remaining' = remove(remain_copy, remaining_index)
                      /\ IF Len(options) # 0 /\ possible_options(options) = {}
                         THEN /\ chunks' = contradiction(chunks).chunks
                              /\ possible' = contradiction(chunks).possible
                              /\ map' = map
                              /\ pc' = "solved"
                         ELSE \E new_chunk_idx \in candidates :
                                /\ chunks' = [chunks EXCEPT ![chunk_index + 1] =
                                                 Some(new_chunk_idx)]
                                /\ map' = blit(map, constraints, chunk_size,
                                               chunk_x, chunk_y, new_chunk_idx)
                                /\ possible' = possible
                                /\ pc' = "solving"
    /\ UNCHANGED <<start_idx, exit_idx, input, vorVars, patterns, constraints, chunk_size>>

SolverIteration ==
    /\ SolverStep
    /\ UNCHANGED auxVars

NextSolver == SolverIteration

SpecSolver == InitSolver /\ [][NextSolver]_vars


\* ------------------------------------------------------ claims on the Solver
\* The slots of the target Grid and their places.
Slots == 0 .. (((map.width \div chunk_size) * (map.height \div chunk_size)) - 1)
SlotX(s) == s % (map.width \div chunk_size)
SlotY(s) == s \div (map.width \div chunk_size)

\* The neighbours t of the slot s, each with the side d of t that faces s
\* (1 north, 2 south, 3 west, 4 east).
Facing(s) ==
    {n \in Slots \X (1 .. 4) :
        \/ SlotY(n[1]) = SlotY(s) /\ SlotX(n[1]) = SlotX(s) - 1 /\ n[2] = 4
        \/ SlotY(n[1]) = SlotY(s) /\ SlotX(n[1]) = SlotX(s) + 1 /\ n[2] = 3
        \/ SlotX(n[1]) = SlotX(s) /\ SlotY(n[1]) = SlotY(s) - 1 /\ n[2] = 2
        \/ SlotX(n[1]) = SlotX(s) /\ SlotY(n[1]) = SlotY(s) + 1 /\ n[2] = 1}

Filled(s) == chunks[s + 1] # <<>>
PlacedAt(s) == chunks[s + 1][1]
FilledFacing(s) == {n \in Facing(s) : Filled(n[1])}

\* The pattern indices that the compatibility list of every filled neighbour
\* of s holds.
Allowed(s) ==
    {p \in 0 .. (Len(constraints) - 1) :
        \A n \in FilledFacing(s) :
            \E k \in 1 .. Len(constraints[PlacedAt(n[1]) + 1].compatible_with[n[2]]) :
                constraints[PlacedAt(n[1]) + 1].compatible_with[n[2]][k] = p}

WorkSet(rem) == {rem[k][1] : k \in 1 .. Len(rem)}

\* The slot that the step takes off the worklist.
Chosen(s) == s \in WorkSet(remaining) /\ s \notin WorkSet(remaining')

\* The tiles of the target Grid under the slot s, row by row.
SlotTiles(m, s) ==
    [k \in 1 .. (chunk_size * chunk_size) |->
        m.tiles[((SlotY(s) * chunk_size + ((k - 1) \div chunk_size)) * m.width)
                + (SlotX(s) * chunk_size) + ((k - 1) % chunk_size)]]

\* The bitmap of a side of a pattern, read off its border cells.
SideBits(p, d) ==
    [i \in 1 .. chunk_size |-> BorderCell(p, chunk_size, SideOf(d), i - 1) = Floor]

\* Two facing bitmaps agree when they are equal, when they share an open
\* cell, or when one of them has no open cell at all.
Agree(a, b) ==
    \/ a = b
    \/ \E i \in 1 .. Len(a) : a[i] /\ b[i]
    \/ \A i \in 1 .. Len(a) : ~ a[i]
    \/ \A i \in 1 .. Len(b) : ~ b[i]

\* C4: in a run that ends with possible = true, the exit bitmaps of the
\* patterns placed in any two adjacent slots agree on the shared boundary.
C4_AdjacentExitsAgree ==
    (pc = "solved" /\ possible) =>
        \A s \in Slots : \A n \in Facing(s) :
            (Filled(s) /\ Filled(n[1])) =>
                Agree(SideBits(patterns[PlacedAt(n[1]) + 1], n[2]),
                      SideBits(patterns[PlacedAt(s) + 1], opposite(n[2] - 1) + 1))

\* C5: when the chosen slot has a filled neighbour and the intersection of the
\* gathered compatibility lists is not empty, the index stored in the slot and
\* stamped into the Grid is a member of that intersection.
C5_StoredIndexInIntersection ==
    [][\A s \in Slots :
          (Chosen(s) /\ FilledFacing(s) # {} /\ Allowed(s) # {}) =>
              \E p \in Allowed(s) :
                  /\ chunks'[s + 1] = <<p>>
                  /\ SlotTiles(map', s) = patterns[p + 1]]_vars

\* C6: when the chosen slot has filled neighbours whose compatibility lists
\* have an empty intersection, the call sets possible = false and returns
\* done, fills no slot and writes no tile; no call ever empties a filled slot.
C6_ContradictionStops ==
    [][/\ \A s \in Slots :
             (Chosen(s) /\ FilledFacing(s) # {} /\ Allowed(s) = {}) =>
                 /\ possible' = FALSE
                 /\ pc' = "solved"
                 /\ chunks' = chunks
                 /\ map' = map
       /\ \A s \in Slots : Filled(s) => chunks'[s + 1] = chunks[s + 1]]_vars

\* A run stopped by a contradiction with some slots filled and some left empty.
C6_Witness ==
    /\ pc = "solved"
    /\ ~ possible
    /\ \E s \in Slots : Filled(s)
    /\ \E s \in Slots : ~ Filled(s) /\ s \notin WorkSet(remaining)
                        /\ FilledFacing(s) # {} /\ Allowed(s) = {}

\* C7: a call that returns not-done fills exactly one empty slot, takes
\* exactly that slot off the worklist and leaves every other slot as it was; a
\* call with an empty worklist returns done and changes no slot and no tile.
C7_OneSlotPerCall ==
    [][/\ (pc = "solving" /\ pc' = "solving") =>
             \E s \in Slots :
                 /\ ~ Filled(s)
                 /\ chunks'[s + 1] # <<>>
                 /\ \A t \in Slots \ {s} :
                       /\ chunks'[t + 1] = chunks[t + 1]
                       /\ SlotTiles(map', t) = SlotTiles(map, t)
                 /\ s \in WorkSet(remaining)
                 /\ WorkSet(remaining') = WorkSet(remaining) \ {s}
                 /\ Len(remaining') = Len(remaining) - 1
       /\ (pc = "solving" /\ remaining = <<>>) =>
             /\ pc' = "solved"
             /\ chunks' = chunks
             /\ map' = map]_vars

\* A run that filled every slot, one per call, and then saw the empty worklist.
C7_Witness ==
    /\ pc = "solved"
    /\ possible
    /\ remaining = <<>>
    /\ Slots # {}
    /\ \A s \in Slots : Filled(s)

\* A pattern none of whose border cells is Floor.
ZeroExits(p) ==
    \A d \in 1 .. 4, i \in 0 .. (chunk_size - 1) :
        BorderCell(p, chunk_size, SideOf(d), i) # Floor

\* C8: with a table of exactly one pattern that has no exit on any side, a
\* finished run has filled every slot with that pattern and possible = true.
C8_SingleZeroExitPattern ==
    (Len(patterns) = 1 /\ ZeroExits(patterns[1])) =>
        /\ possible
        /\ \A s \in Slots : Filled(s) => PlacedAt(s) = 0 /\ SlotTiles(map, s) = patterns[1]
        /\ pc = "solved" => \A s \in Slots : Filled(s)

\* The end of a run over a table of one zero-exit pattern.
C8_Witness ==
    /\ Len(patterns) = 1
    /\ ZeroExits(patterns[1])
    /\ pc = "solved"
    /\ Slots # {}
    /\ \A s \in Slots : Filled(s) /\ PlacedAt(s) = 0


\* ---------------------------------------------- claims on the constraint table
\* The side opposite the side d (1 north, 2 south, 3 west, 4 east).
FacingSide(d) == <<2, 1, 4, 3>>[d]

\* The side d of the pattern p has no Floor border cell.
SideClosed(p, d) ==
    \A i \in 0 .. (chunk_size - 1) : BorderCell(p, chunk_size, SideOf(d), i) # Floor

\* The pattern index b is listed in compatible_with of the pattern index a
\* for the side d.
Listed(a, d, b) ==
    \E k \in 1 .. Len(constraints[a + 1].compatible_with[d]) :
        constraints[a + 1].compatible_with[d][k] = b

\* C11: B is listed in A.compatible_with[D] whenever A has no open cell on
\* the side D or B has no open cell on the side opposite D.
C11_ClosedSideIsWildcard ==
    pc = "pat_constrained" =>
        \A a, b \in 0 .. (Len(constraints) - 1) : \A d \in 1 .. 4 :
            (SideClosed(patterns[a + 1], d) \/ SideClosed(patterns[b + 1], FacingSide(d)))
                => Listed(a, d, b)


\* ------------------------------------------- repeated calls of build_patterns
MaxCalls == 3                         \* calls of build_patterns in a run

InitDedupe ==
    /\ pc = "dedupe_calls"
    /\ \E shape \in PatShapes :
          \E tiles \in [0 .. (shape[1] * shape[2] - 1) -> PatternTiles] :
              /\ map = SourceMap(shape[1], shape[2], tiles)
              /\ chunk_size = shape[3]
    /\ \E include_flipping \in BOOLEAN :
          /\ input = [ map |-> map, include_flipping |-> include_flipping ]
          /\ Cardinality(SeqRange(
                build_patterns_list(map, chunk_size, include_flipping))) <= MaxDedupe
    /\ start_idx = 0
    /\ exit_idx = 0
    /\ patterns = <<>>
    /\ constraints = <<>>
    /\ chunks = <<>>
    /\ remaining = <<>>
    /\ possible = TRUE
    /\ builder = <<>>
    /\ returned = <<>>
    /\ VorIdle

\* One more call of build_patterns on the same source and chunk size.
BuildPatternsAgain ==
    /\ pc = "dedupe_calls"
    /\ Len(returned) < MaxCalls
    /\ \E dedupe \in BOOLEAN :
          \E result \in build_patterns(input.map, chunk_size,
                                       input.include_flipping, dedupe) :
              /\ patterns' = result
              /\ returned' = Append(returned, [ dedupe |-> dedupe, patterns |-> result ])
    /\ UNCHANGED <<pc, map, start_idx, exit_idx, input, vorVars,
                   constraints, chunk_size, solverVars, builder>>

NextDedupe == BuildPatternsAgain

SpecDedupe == InitDedupe /\ [][NextDedupe]_vars

\* The members of a sequence, as a set.
Members(s) == {s[k] : k \in 1 .. Len(s)}

\* C12: a deduped result holds every distinct tile sequence once, and all
\* calls on the same source and chunk size, deduped or not, return the same
\* set of patterns.
C12_DedupeSameSet ==
    /\ \A i \in 1 .. Len(returned) :
          returned[i].dedupe =>
              \A a, b \in 1 .. Len(returned[i].patterns) :
                  a # b => returned[i].patterns[a] # returned[i].patterns[b]
    /\ \A i, j \in 1 .. Len(returned) :
          Members(returned[i].patterns) = Members(returned[j].patterns)

\* Two deduped calls that returned different orders, and a plain call whose
\* list holds a pattern more than once.
C12_Witness ==
    \E i, j, k \in 1 .. Len(returned) :
        /\ returned[i].dedupe /\ returned[j].dedupe /\ ~ returned[k].dedupe
        /\ returned[i].patterns # returned[j].patterns
        /\ Len(returned[k].patterns) > Len(returned[i].patterns)
        /\ Len(returned[i].patterns) > 1


\* ------------------------------- generate_voronoi_spawn_regions, called alone
\* <<width, height>> of the Grids handed to generate_voronoi_spawn_regions
RegionShapes == {<<4, 4>>, <<5, 3>>}

InitRegions ==
    /\ pc = "regions_call"
    /\ \E shape \in RegionShapes : map \in PruneGrids(shape[1], shape[2])
    /\ \E noise \in [InteriorFloor(map) -> NoiseCells] :
          input = [ map |-> map, noise |-> noise ]
    /\ start_idx = 0
    /\ exit_idx = 0
    /\ VorIdle
    /\ WfcIdle
    /\ AuxIdle

RegionsCall ==
    /\ pc = "regions_call"
    /\ builder' = [ noise_areas |-> generate_voronoi_spawn_regions(map, input.noise) ]
    /\ pc' = "regions_done"
    /\ UNCHANGED <<map, start_idx, exit_idx, input, vorVars, wfcVars, returned>>

NextRegions == RegionsCall

SpecRegions == InitRegions /\ [][NextRegions]_vars

\* How often the index i stands in the list s.
TimesIn(s, i) == Cardinality({k \in 1 .. Len(s) : s[k] = i})

\* The Floor tiles with 1 <= x < width - 1 and 1 <= y < height - 1.
InnerFloorTiles ==
    {i \in 0 .. (map.width * map.height - 1) :
        /\ map.tiles[i] = Floor
        /\ (i % map.width) \in 1 .. (map.width - 2)
        /\ (i \div map.width) \in 1 .. (map.height - 2)}

\* C13: every interior Floor tile stands in the list of exactly one region id,
\* once, and no list holds an index that is not an interior Floor tile.
C13_RegionCoverage ==
    pc = "regions_done" =>
        LET areas == builder.noise_areas
        IN  /\ \A i \in InnerFloorTiles :
                  /\ Cardinality({k \in DOMAIN areas : TimesIn(areas[k], i) > 0}) = 1
                  /\ \A k \in DOMAIN areas : TimesIn(areas[k], i) <= 1
            /\ \A k \in DOMAIN areas : \A n \in 1 .. Len(areas[k]) :
                  areas[k][n] \in InnerFloorTiles

\* A region with two tiles on a Grid that also has a Floor tile on its border.
C13_Witness ==
    /\ pc = "regions_done"
    /\ \E k \in DOMAIN builder.noise_areas : Len(builder.noise_areas[k]) >= 2
    /\ \E i \in 0 .. (map.width * map.height - 1) :
          map.tiles[i] = Floor /\ i \notin InnerFloorTiles


\* ------------------------------------------------- claims on the exit tile
\* C14: the index the pruning returns is a Floor tile with a finite distance
\* from the start, and no Floor tile with a finite distance lies farther.
C14_ExitIsFarthestFloor ==
    pc = "pruned" =>
        \E zero \in BOOLEAN :
            LET dm == DijkstraMap(populate_blocked(input.map), input.start, MaxDepth, zero)
            IN  /\ input.map.tiles[exit_idx] = Floor
                /\ dm[exit_idx] # F32_MAX
                /\ \A j \in Indices(input.map) :
                      (input.map.tiles[j] = Floor /\ dm[j] # F32_MAX)
                          => dm[j] <= dm[exit_idx]


\* C15: build() places the DownStairs and completes only when the pruning
\* left a reachable Floor tile other than the start, and then on a reachable
\* Floor tile; otherwise the attempt does not complete.
C15_NoStairsWithoutReachableFloor ==
    [][(pc = "vor_stairs" /\ pc' = "vor_regions") =>
          /\ \E j \in OpenReach(map, start_idx) \ {start_idx} : map.tiles[j] = Floor
          /\ map.tiles[exit_idx] = Floor
          /\ exit_idx \in OpenReach(map, start_idx)]_vars


\* ==================================================== rect.rs and the rooms
\* Rect::new(x, y, w, h)
RectNew(x, y, w, h) == [ x1 |-> x, y1 |-> y, x2 |-> x + w, y2 |-> y + h ]

\* Rect::intersect
intersect(a, b) ==
    a.x1 <= b.x2 /\ a.x2 >= b.x1 /\ a.y1 <= b.y2 /\ a.y2 >= b.y1

\* Rect::center
center(r) == << (r.x1 + r.x2) \div 2, (r.y1 + r.y2) \div 2 >>

\* apply_room_to_map: Wall on the frame x1 ..= x2 + 1, y1 ..= y2 + 1, Floor
\* inside it.
apply_room_to_map(m, room) ==
    LET top == room.y1
        btm == room.y2 + 1
        lft == room.x1
        rgt == room.x2 + 1
    IN  [m EXCEPT !.tiles =
            [i \in DOMAIN m.tiles |->
                LET x == i % m.width
                    y == i \div m.width
                IN  IF x < lft \/ x > rgt \/ y < top \/ y > btm THEN m.tiles[i]
                    ELSE IF x = lft \/ x = rgt \/ y = top \/ y = btm THEN Wall
                    ELSE Floor]]

\* One pass of the loop of draw_corridor once (x, y) has moved: the tile
\* becomes Floor, and each of its eight neighbours that is not Floor, Wall.
corridor_carve(m, x, y) ==
    LET around == {xy_idx(m, x2, y2) : x2 \in (x - 1) .. (x + 1),
                                       y2 \in (y - 1) .. (y + 1)}
    IN  [m EXCEPT !.tiles =
            [i \in DOMAIN m.tiles |->
                IF i = xy_idx(m, x, y) THEN Floor
                ELSE IF i \in around /\ m.tiles[i] # Floor THEN Wall
                ELSE m.tiles[i]]]

\* A variant that never moves along y.
corridor_next_x_only(x, y, x2, y2) ==
    IF x < x2 THEN <<x + 1, y>>
    ELSE IF x > x2 THEN <<x - 1, y>>
    ELSE <<x2, y2>>

\* The move of one pass: along x first, then along y.
corridor_next(x, y, x2, y2) ==
    IF x < x2 THEN <<x + 1, y>>
    ELSE IF x > x2 THEN <<x - 1, y>>
    ELSE IF y < y2 THEN <<x, y + 1>>
    ELSE <<x, y - 1>>

\* draw_corridor: the first tile (x1, y1) is not carved.
RECURSIVE draw_corridor(_, _, _, _, _)
draw_corridor(m, x1, y1, x2, y2) ==
    IF x1 = x2 /\ y1 = y2 THEN m
    ELSE LET p == corridor_next(x1, y1, x2, y2)
         IN  draw_corridor(corridor_carve(m, p[1], p[2]), p[1], p[2], x2, y2)

Min2(a, b) == IF a <= b THEN a ELSE b

apply_horizontal_tunnel(m, x1, x2, y) ==
    draw_corridor(m, Min2(x1, x2), y, Max2(x1, x2), y)

apply_vertical_tunnel(m, y1, y2, x) ==
    draw_corridor(m, x, Min2(y1, y2), x, Max2(y1, y2))


\* ------------------------------------------------------- SimpleMapBuilder
\* MAP_WIDTH x MAP_HEIGHT, MIN_SIZE, MAX_SIZE and MAX_ROOMS of the source are
\* 80 x 43, 6, 10 and 30; the runs checked here use the smaller values below.
SimpleShapes == {<<8, 7>>}            \* <<MAP_WIDTH, MAP_HEIGHT>>
MinSize == 2                          \* MIN_SIZE
MaxSize == 4                          \* MAX_SIZE (exclusive)
MaxRooms == 3                         \* MAX_ROOMS

InitSimple ==
    /\ pc = "simple_rooms"
    /\ \E shape \in SimpleShapes : map = MapNew(shape[1], shape[2], Void)
    /\ start_idx = 0
    /\ exit_idx = 0
    /\ builder = [ rooms |-> <<>>, attempts |-> 0, tunnels |-> 0 ]
    /\ returned = <<>>
    /\ input = [ map |-> map ]
    /\ VorIdle
    /\ WfcIdle

\* One pass of the 'generateRooms loop.
SimpleRoomAttempt ==
    /\ pc = "simple_rooms"
    /\ builder.attempts < MaxRooms
    /\ \E w \in MinSize .. (MaxSize - 1), h \in MinSize .. (MaxSize - 1) :
       \E x \in 0 .. (map.width - w - 2), y \in 0 .. (map.height - h - 2) :
          LET new_room == RectNew(x, y, w, h)
          IN  IF \E k \in 1 .. Len(builder.rooms) : intersect(new_room, builder.rooms[k])
              THEN /\ map' = map
                   /\ builder' = [builder EXCEPT !.attempts = @ + 1]
              ELSE /\ map' = apply_room_to_map(map, new_room)
                   /\ builder' = [builder EXCEPT !.attempts = @ + 1,
                                                 !.rooms = Append(@, new_room)]
    /\ UNCHANGED <<pc, start_idx, exit_idx, input, vorVars, wfcVars, returned>>

\* One pass of the tunnel loop: the room i + 1 is joined to the room i.
SimpleTunnel ==
    /\ pc = "simple_rooms"
    /\ builder.attempts = MaxRooms
    /\ builder.tunnels + 1 < Len(builder.rooms)
    /\ LET i == builder.tunnels
           new == center(At(builder.rooms, i + 1))
           prev == center(At(builder.rooms, i))
       IN  \E range \in 0 .. 1 :
              map' = IF range = 1
                     THEN apply_vertical_tunnel(
                              apply_horizontal_tunnel(map, prev[1], new[1], prev[2]),
                              prev[2], new[2], new[1])
                     ELSE apply_horizontal_tunnel(
                              apply_vertical_tunnel(map, prev[2], new[2], prev[1]),
                              prev[1], new[1], new[2])
    /\ builder' = [builder EXCEPT !.tunnels = @ + 1]
    /\ UNCHANGED <<pc, start_idx, exit_idx, input, vorVars, wfcVars, returned>>

\* The stairs and the starting position; indexing the empty room list panics.
SimpleFinish ==
    /\ pc = "simple_rooms"
    /\ builder.attempts = MaxRooms
    /\ builder.tunnels + 1 >= Len(builder.rooms)
    /\ IF Len(builder.rooms) = 0
       THEN /\ pc' = "panicked"
            /\ UNCHANGED <<map, start_idx>>
       ELSE LET stairs_pos == center(At(builder.rooms, Len(builder.rooms) - 1))
                start_pos == center(At(builder.rooms, 0))
            IN  /\ map' = [map EXCEPT
                              !.tiles[xy_idx(map, stairs_pos[1], stairs_pos[2])] = DownStairs]
                /\ start_idx' = xy_idx(map, start_pos[1], start_pos[2])
                /\ pc' = "built"
    /\ UNCHANGED <<exit_idx, input, vorVars, wfcVars, builder, returned>>

NextSimple ==
    \/ SimpleRoomAttempt
    \/ SimpleTunnel
    \/ SimpleFinish

SpecSimple == InitSimple /\ [][NextSimple]_vars

\* C19: after build(), the placed rooms are pairwise non-intersecting and every
\* Floor tile is reached from the starting position by 8-directional steps
\* onto Floor tiles.
C19_RoomsApartFloorConnected ==
    pc = "built" =>
        /\ \A a, b \in 1 .. Len(builder.rooms) :
              a # b =>
                  \/ builder.rooms[a].x2 < builder.rooms[b].x1
                  \/ builder.rooms[b].x2 < builder.rooms[a].x1
                  \/ builder.rooms[a].y2 < builder.rooms[b].y1
                  \/ builder.rooms[b].y2 < builder.rooms[a].y1
        /\ \A i \in Indices(map) :
              map.tiles[i] = Floor => i \in ReachVia(map, {start_idx}, {Floor})

\* Three rooms joined by two tunnels.
C19_Witness ==
    /\ pc = "built"
    /\ Len(builder.rooms) = 3
    /\ builder.tunnels = 2


\* ------------------------------------------------------ BspDungeonBuilder
\* The source runs on 80 x 43 with 240 passes of the room loop; the runs
\* checked here use the grids and the number of passes below.
BspShapes == {<<11, 17>>, <<18, 10>>} \* <<MAP_WIDTH, MAP_HEIGHT>>
MaxTries == 3                         \* passes of the room loop

\* add_subrects: the four quarters of a rect are pushed on rects.
add_subrects(rects, rect) ==
    LET width == Abs(rect.x1 - rect.x2)
        height == Abs(rect.y1 - rect.y2)
        half_width == Max2(width \div 2, 1)
        half_height == Max2(height \div 2, 1)
    IN  rects \o << RectNew(rect.x1, rect.y1, half_width, half_height),
                    RectNew(rect.x1, rect.y1 + half_height, half_width, half_height),
                    RectNew(rect.x1 + half_width, rect.y1, half_width, half_height),
                    RectNew(rect.x1 + half_width, rect.y1 + half_height,
                            half_width, half_height) >>

\* get_random_sub_rect with the four rolls it makes: roll_w in
\* 1 .. min(width, 10), roll_h in 1 .. min(height, 10), roll_x, roll_y in 1 .. 6.
get_random_sub_rect(rect, roll_w, roll_h, roll_x, roll_y) ==
    LET w == Max2(3, roll_w - 1) + 1
        h == Max2(3, roll_h - 1) + 1
        x1 == rect.x1 + (roll_x - 1)
        y1 == rect.y1 + (roll_y - 1)
    IN  [ x1 |-> x1, y1 |-> y1, x2 |-> x1 + w, y2 |-> y1 + h ]

is_void_or_wall(m, x, y) ==
    m.tiles[xy_idx(m, x, y)] = Wall \/ m.tiles[xy_idx(m, x, y)] = Void

\* is_possible: the rect grown by 2 (1 at the bottom) lies inside the map
\* frame and holds only Void and Wall tiles.
is_possible(m, rect) ==
    \A x \in (rect.x1 - 2) .. (rect.x2 + 2), y \in (rect.y1 - 2) .. (rect.y2 + 1) :
        /\ x <= m.width - 2
        /\ y <= m.height - 2
        /\ x >= 1
        /\ y >= 1
        /\ is_void_or_wall(m, x, y)

\* rooms.sort_by(|a, b| a.x1.cmp(&b.x1)): a stable sort.
RECURSIVE insert_by_x1(_, _)
insert_by_x1(sorted, r) ==
    IF sorted = <<>> THEN <<r>>
    ELSE IF Head(sorted).x1 <= r.x1
         THEN <<Head(sorted)>> \o insert_by_x1(Tail(sorted), r)
         ELSE <<r>> \o sorted

RECURSIVE sort_by_x1(_)
sort_by_x1(rooms) ==
    IF rooms = <<>> THEN <<>>
    ELSE insert_by_x1(sort_by_x1(SubSeq(rooms, 1, Len(rooms) - 1)), rooms[Len(rooms)])

InitBsp ==
    /\ pc = "bsp_rooms"
    /\ \E shape \in BspShapes : map = MapNew(shape[1], shape[2], Void)
    /\ start_idx = 0
    /\ exit_idx = 0
    /\ builder = [ rooms |-> <<>>,
                   rects |-> add_subrects(
                                 << RectNew(2, 2, map.width - 5, map.height - 5) >>,
                                 RectNew(2, 2, map.width - 5, map.height - 5)),
                   n_rooms |-> 0,
                   corridors |-> 0 ]
    /\ returned = <<>>
    /\ input = [ map |-> map ]
    /\ VorIdle
    /\ WfcIdle

\* One pass of the room loop.
BspTry ==
    /\ pc = "bsp_rooms"
    /\ builder.n_rooms < MaxTries
    /\ \E idx \in 0 .. (Len(builder.rects) - 1) :
         LET rect == At(builder.rects, idx)
         IN  \E roll_w \in 1 .. Min2(Abs(rect.x1 - rect.x2), 10),
                roll_h \in 1 .. Min2(Abs(rect.y1 - rect.y2), 10),
                roll_x \in 1 .. 6, roll_y \in 1 .. 6 :
               LET candidate == get_random_sub_rect(rect, roll_w, roll_h, roll_x, roll_y)
               IN  IF is_possible(map, candidate)
                   THEN /\ map' = apply_room_to_map(map, candidate)
                        /\ builder' = [builder EXCEPT
                                          !.rooms = Append(@, candidate),
                                          !.rects = add_subrects(@, rect),
                                          !.n_rooms = @ + 1]
                   ELSE /\ map' = map
                        /\ builder' = [builder EXCEPT !.n_rooms = @ + 1]
    /\ UNCHANGED <<pc, start_idx, exit_idx, input, vorVars, wfcVars, returned>>

\* The sort that follows the room loop.
BspSort ==
    /\ pc = "bsp_rooms"
    /\ builder.n_rooms = MaxTries
    /\ builder' = [builder EXCEPT !.rooms = sort_by_x1(@)]
    /\ pc' = "bsp_corridors"
    /\ UNCHANGED <<map, start_idx, exit_idx, input, vorVars, wfcVars, returned>>

\* One pass of the corridor loop, between the rooms i and i + 1.
BspCorridor ==
    /\ pc = "bsp_corridors"
    /\ builder.corridors + 1 < Len(builder.rooms)
    /\ LET room == At(builder.rooms, builder.corridors)
           next_room == At(builder.rooms, builder.corridors + 1)
       IN  \E start_x \in room.x1 .. (room.x1 + Abs(room.x1 - room.x2) - 1),
              start_y \in room.y1 .. (room.y1 + Abs(room.y1 - room.y2) - 1),
              end_x \in next_room.x1 .. (next_room.x1 + Abs(next_room.x1 - next_room.x2) - 1),
              end_y \in next_room.y1 .. (next_room.y1 + Abs(next_room.y1 - next_room.y2) - 1) :
             map' = draw_corridor(map, start_x, start_y, end_x, end_y)
    /\ builder' = [builder EXCEPT !.corridors = @ + 1]
    /\ UNCHANGED <<pc, start_idx, exit_idx, input, vorVars, wfcVars, returned>>

\* The end of build().  With no room, rooms.len() - 1 underflows: a build with
\* overflow checks panics there, one without them enters the loop and panics
\* on rooms[0].
BspFinish ==
    /\ pc = "bsp_corridors"
    /\ builder.corridors + 1 >= Len(builder.rooms)
    /\ IF Len(builder.rooms) = 0
       THEN /\ pc' = "panicked"
            /\ \E panic \in {"attempt to subtract with overflow",
                             "index out of bounds: rooms[0]"} :
                  returned' = <<panic>>
            /\ UNCHANGED <<map, start_idx>>
       ELSE LET start == center(At(builder.rooms, 0))
                stairs == center(At(builder.rooms, Len(builder.rooms) - 1))
            IN  /\ start_idx' = xy_idx(map, start[1], start[2])
                /\ map' = [map EXCEPT
                              !.tiles[xy_idx(map, stairs[1], stairs[2])] = DownStairs]
                /\ pc' = "built"
                /\ returned' = returned
    /\ UNCHANGED <<exit_idx, input, vorVars, wfcVars, builder>>

NextBsp ==
    \/ BspTry
    \/ BspSort
    \/ BspCorridor
    \/ BspFinish

SpecBsp == InitBsp /\ [][NextBsp]_vars


\* C16: when no room was placed, build() ends in an explicit construction
\* error; it never ends by indexing the empty room list (a panic on
\* rooms[0] or on rooms.len() - 1) and never reports a built map.
C16_ZeroRoomsIsExplicitError ==
    (pc \in {"built", "panicked", "construction_error"} /\ Len(builder.rooms) = 0)
        => pc = "construction_error"

\* C20: after build(), every Floor tile and the DownStairs tile are reached
\* from the starting position by 8-directional steps onto Floor tiles (the
\* last step may be onto the DownStairs tile).
C20_BspFloorConnected ==
    pc = "built" =>
        LET reach == ReachVia(map, {start_idx}, {Floor})
        IN  /\ \A i \in Indices(map) : map.tiles[i] = Floor => i \in reach
            /\ \A i \in Indices(map) :
                  map.tiles[i] = DownStairs =>
                      \/ i = start_idx
                      \/ \E j \in reach : Adjacent8(map, i, j)


\* ------------------------------------------------------ DrunkardWalkBuilder
\* The source runs on 80 x 43 with lifetimes of 100 and 400 steps and floor
\* shares of 0.4 and 0.5; the runs checked here use the values below.
DrunkShapes == {<<6, 5>>}             \* <<MAP_WIDTH, MAP_HEIGHT>>
DrunkLifetimes == {2, 3}              \* settings.lifetime
DrunkPercents == {10, 20}             \* settings.floor_percent, in hundredths
MaxDiggers == 3                       \* passes of the outer loop

StartingPoint == "StartingPoint"
Random == "Random"
DrunkSpawnMode == {StartingPoint, Random}

\* (floor_percent * total_tiles as f32) as usize
desired_floor_tiles(m, percent) == (percent * (m.width * m.height)) \div 100

floor_tile_count(m) == Cardinality({i \in Indices(m) : m.tiles[i] = Floor})

\* A variant of the clean-up that leaves the markers in place.
placeholders_kept(m) == m

\* The clean-up after a digger: every Placeholder tile becomes Floor.
placeholders_to_floor(m) ==
    [m EXCEPT !.tiles = [i \in DOMAIN m.tiles |->
                            IF m.tiles[i] = Placeholder THEN Floor ELSE m.tiles[i]]]

\* The move of one stagger.
stagger(m, drunk_x, drunk_y, stagger_direction) ==
    CASE stagger_direction = 1 ->
            IF drunk_x > 2 THEN <<drunk_x - 1, drunk_y>> ELSE <<drunk_x, drunk_y>>
      [] stagger_direction = 2 ->
            IF drunk_x < m.width - 2 THEN <<drunk_x + 1, drunk_y>> ELSE <<drunk_x, drunk_y>>
      [] stagger_direction = 3 ->
            IF drunk_y > 2 THEN <<drunk_x, drunk_y - 1>> ELSE <<drunk_x, drunk_y>>
      [] OTHER ->
            IF drunk_y < m.height - 2 THEN <<drunk_x, drunk_y + 1>> ELSE <<drunk_x, drunk_y>>

InitDrunkard ==
    /\ pc = "drunk_start"
    /\ \E shape \in DrunkShapes : map = MapNew(shape[1], shape[2], Wall)
    /\ start_idx = 0
    /\ exit_idx = 0
    /\ \E spawn_mode \in DrunkSpawnMode, lifetime \in DrunkLifetimes,
          floor_percent \in DrunkPercents, visualiser \in BOOLEAN :
          /\ input = [ spawn_mode |-> spawn_mode, lifetime |-> lifetime,
                       floor_percent |-> floor_percent,
                       mapgen_visualiser |-> visualiser ]
          /\ builder = [ settings |-> [ spawn_mode |-> spawn_mode,
                                        lifetime |-> lifetime,
                                        floor_percent |-> floor_percent ],
                         mapgen_visualiser |-> visualiser,
                         drunk_x |-> 0, drunk_y |-> 0, drunk_life |-> 0,
                         did_something |-> FALSE, digger_count |-> 0,
                         noise_areas |-> [k \in {} |-> <<>>] ]
    /\ returned = <<>>
    /\ VorIdle
    /\ WfcIdle

\* build() up to the outer loop: the centre becomes Floor.
DrunkStart ==
    /\ pc = "drunk_start"
    /\ start_idx' = xy_idx(map, map.width \div 2, map.height \div 2)
    /\ map' = [map EXCEPT !.tiles[start_idx'] = Floor]
    /\ pc' = "drunk_outer"
    /\ UNCHANGED <<exit_idx, input, vorVars, wfcVars, builder, returned>>

\* The head of a pass of the outer loop: a new digger is set down.
DrunkSpawn ==
    /\ pc = "drunk_outer"
    /\ floor_tile_count(map) < desired_floor_tiles(map, builder.settings.floor_percent)
    /\ builder.digger_count < MaxDiggers
    /\ \E drunk_x \in 2 .. (map.width - 2), drunk_y \in 2 .. (map.height - 2) :
          /\ (builder.settings.spawn_mode = StartingPoint \/ builder.digger_count = 0)
                => /\ drunk_x = start_idx % map.width
                   /\ drunk_y = start_idx \div map.width
          /\ builder' = [builder EXCEPT !.drunk_x = drunk_x, !.drunk_y = drunk_y,
                                        !.drunk_life = builder.settings.lifetime,
                                        !.did_something = FALSE]
    /\ pc' = "drunk_walk"
    /\ UNCHANGED <<map, start_idx, exit_idx, input, vorVars, wfcVars, returned>>

\* One pass of the inner loop: dig the tile under the digger, then stagger.
DrunkStagger ==
    /\ pc = "drunk_walk"
    /\ builder.drunk_life > 0
    /\ LET drunk_idx == xy_idx(map, builder.drunk_x, builder.drunk_y)
           digs == map.tiles[drunk_idx] = Wall
       IN  /\ map' = IF digs
                     THEN [map EXCEPT !.tiles[drunk_idx] =
                              IF builder.mapgen_visualiser THEN Placeholder ELSE Floor]
                     ELSE map
           /\ \E stagger_direction \in 1 .. 4 :
                 LET to == stagger(map, builder.drunk_x, builder.drunk_y, stagger_direction)
                 IN  builder' = [builder EXCEPT
                                    !.drunk_x = to[1], !.drunk_y = to[2],
                                    !.drunk_life = @ - 1,
                                    !.did_something =
                                        @ \/ (digs /\ builder.mapgen_visualiser)]
    /\ UNCHANGED <<pc, start_idx, exit_idx, input, vorVars, wfcVars, returned>>

\* The end of a pass of the outer loop.
DrunkDiggerEnd ==
    /\ pc = "drunk_walk"
    /\ builder.drunk_life = 0
    /\ map' = IF builder.mapgen_visualiser /\ builder.did_something
              THEN placeholders_to_floor(map)
              ELSE map
    /\ builder' = [builder EXCEPT !.digger_count = @ + 1]
    /\ pc' = "drunk_outer"
    /\ UNCHANGED <<start_idx, exit_idx, input, vorVars, wfcVars, returned>>

\* After the outer loop: the pruning and the stairs.
DrunkPrune ==
    /\ pc = "drunk_outer"
    /\ floor_tile_count(map) >= desired_floor_tiles(map, builder.settings.floor_percent)
    /\ \E zero \in BOOLEAN :
         LET r == remove_unreachable_areas_returning_most_distant(map, start_idx, zero)
         IN  /\ exit_idx' = r.exit
             /\ map' = [r.map EXCEPT !.tiles[r.exit] = DownStairs]
    /\ pc' = "drunk_regions"
    /\ UNCHANGED <<start_idx, input, vorVars, wfcVars, builder, returned>>

\* The spawn regions, the last statement of build().
DrunkRegions ==
    /\ pc = "drunk_regions"
    /\ \E noise \in [InteriorFloor(map) -> NoiseCells] :
          builder' = [builder EXCEPT
                         !.noise_areas = generate_voronoi_spawn_regions(map, noise)]
    /\ pc' = "built"
    /\ UNCHANGED <<map, start_idx, exit_idx, input, vorVars, wfcVars, returned>>

NextDrunkard ==
    \/ DrunkStart
    \/ DrunkSpawn
    \/ DrunkStagger
    \/ DrunkDiggerEnd
    \/ DrunkPrune
    \/ DrunkRegions

SpecDrunkard == InitDrunkard /\ [][NextDrunkard]_vars

\* C17: no finished Grid holds a Placeholder tile, with or without the mapgen
\* visualiser; the markers of a digger are gone when its pass ends.
C17_NoPlaceholderLeft ==
    pc \in {"drunk_outer", "drunk_regions", "built"} =>
        \A i \in Indices(map) : map.tiles[i] # Placeholder

\* A finished build with the visualiser on whose diggers carved tiles.
C17_Witness ==
    /\ pc = "built"
    /\ builder.mapgen_visualiser
    /\ builder.digger_count > 0
    /\ Cardinality({i \in Indices(map) : map.tiles[i] \in {Floor, DownStairs}}) >= 3


\* ------------------------------------------------- WaveformCollapseBuilder
\* <<MAP_WIDTH, MAP_HEIGHT, CHUNK_SIZE>>; the source has 80, 43 and 8.
WfcShapes == {<<4, 4, 2>>}
MaxAttempts == 2                      \* the attempts that are told apart

\* The source Grid of the prebuilder with its DownStairs turned into Floor.
stairs_to_floor(m) ==
    [m EXCEPT !.tiles = [i \in DOMAIN m.tiles |->
                            IF m.tiles[i] = DownStairs THEN Floor ELSE m.tiles[i]]]

\* A variant of the loop exit that does not look at the flag.
leaves_loop_always(solver_possible) == TRUE

\* `if solver.possible { break }`
leaves_loop(solver_possible) == solver_possible

\* The search for the starting tile: left from (x, y) until a Floor tile.
\* xy_idx adds `x as usize`, which for a negative x overflows in a build with
\* overflow checks and wraps into the row above in one without.
RECURSIVE start_search(_, _, _, _)
start_search(m, x, y, overflow_checks) ==
    IF x < 0 /\ overflow_checks /\ y * m.width > 0
    THEN [ panic |-> "attempt to add with overflow" ]
    ELSE IF xy_idx(m, x, y) < 0
    THEN [ panic |-> "index out of bounds" ]
    ELSE IF m.tiles[xy_idx(m, x, y)] = Floor
    THEN [ x |-> x, start_idx |-> xy_idx(m, x, y) ]
    ELSE start_search(m, x - 1, y, overflow_checks)

\* The chunks of the checked source Grids: those with at most two distinct
\* mirror images.
SourceChunks(size) ==
    {p \in [1 .. (size * size) -> PatternTiles] :
        Cardinality({p, MirrorH(p, size), MirrorV(p, size),
                     MirrorBoth(p, size)}) <= 2}

\* The Grid of w x h tiles whose chunk in slot k is of[k], with the
\* DownStairs of the prebuilder on its last Floor tile.
SourceOf(w, h, size, of) ==
    LET tiles == [i \in 0 .. (w * h - 1) |->
                    LET x == i % w
                        y == i \div w
                    IN  of[((y \div size) * (w \div size)) + (x \div size) + 1]
                          [tile_idx_in_chunk(size, x % size, y % size) + 1]]
        floors == {i \in DOMAIN tiles : tiles[i] = Floor}
        last == CHOOSE i \in floors : \A j \in floors : j <= i
    IN  SourceMap(w, h, IF floors = {} THEN tiles
                        ELSE [tiles EXCEPT ![last] = DownStairs])

InitWfc ==
    /\ pc = "wfc_start"
    /\ \E shape \in WfcShapes :
          /\ map = MapNew(shape[1], shape[2], Wall)
          /\ chunk_size = shape[3]
          /\ \E of \in [1 .. ((shape[1] \div shape[3]) * (shape[2] \div shape[3]))
                           -> SourceChunks(shape[3])] :
                /\ Cardinality({of[k] : k \in DOMAIN of}) <= MaxDedupe
                /\ input = [ source |-> SourceOf(shape[1], shape[2], shape[3], of) ]
                /\ Cardinality(SeqRange(build_patterns_list(
                       stairs_to_floor(input.source), chunk_size, TRUE))) <= MaxDedupe
    /\ start_idx = 0
    /\ exit_idx = 0
    /\ patterns = <<>>
    /\ constraints = <<>>
    /\ chunks = <<>>
    /\ remaining = <<>>
    /\ possible = TRUE
    /\ builder = [ attempts |-> 0, noise_areas |-> [k \in {} |-> <<>>] ]
    /\ returned = <<>>
    /\ VorIdle

\* build() up to the retry loop: the source Grid, its patterns, the tables.
\* The source Grid is not read again.
WfcPatterns ==
    /\ pc = "wfc_start"
    /\ patterns' \in build_patterns(stairs_to_floor(input.source), chunk_size, TRUE, TRUE)
    /\ constraints' = patterns_to_constraints(patterns', chunk_size)
    /\ input' = <<>>
    /\ pc' = "wfc_loop"
    /\ UNCHANGED <<map, start_idx, exit_idx, vorVars, chunk_size, solverVars, auxVars>>

\* The head of the retry loop: a Solver is constructed; the Grid is kept.
WfcNewSolver ==
    /\ pc = "wfc_loop"
    /\ chunks' = SolverNew(map, chunk_size).chunks
    /\ remaining' = SolverNew(map, chunk_size).remaining
    /\ possible' = SolverNew(map, chunk_size).possible
    /\ builder' = [builder EXCEPT !.attempts = Min2(@ + 1, MaxAttempts)]
    /\ pc' = "solving"
    /\ UNCHANGED <<map, start_idx, exit_idx, input, vorVars, patterns, constraints,
                   chunk_size, returned>>

\* The foot of the retry loop, after iteration has returned true.
WfcBreak ==
    /\ pc = "solved"
    /\ pc' = IF leaves_loop(possible) THEN "wfc_left" ELSE "wfc_loop"
    /\ UNCHANGED <<map, start_idx, exit_idx, input, vorVars, wfcVars, auxVars>>

\* The starting position: from the centre to the left until a Floor tile.
WfcStartSearch ==
    /\ pc = "wfc_left"
    /\ \E overflow_checks \in BOOLEAN :
         LET r == start_search(map, map.width \div 2, map.height \div 2, overflow_checks)
         IN  IF "panic" \in DOMAIN r
             THEN /\ pc' = "panicked"
                  /\ returned' = <<r.panic>>
                  /\ start_idx' = start_idx
             ELSE /\ pc' = "wfc_prune"
                  /\ returned' = returned
                  /\ start_idx' = r.start_idx
    /\ UNCHANGED <<map, exit_idx, input, vorVars, wfcVars, builder>>

\* The pruning and the stairs.
WfcPrune ==
    /\ pc = "wfc_prune"
    /\ \E zero \in BOOLEAN :
         LET r == remove_unreachable_areas_returning_most_distant(map, start_idx, zero)
         IN  /\ exit_idx' = r.exit
             /\ map' = [r.map EXCEPT !.tiles[r.exit] = DownStairs]
    /\ pc' = "wfc_regions"
    /\ UNCHANGED <<start_idx, input, vorVars, wfcVars, auxVars>>

\* The spawn regions, the last statement of build().
WfcRegions ==
    /\ pc = "wfc_regions"
    /\ \E noise \in [InteriorFloor(map) -> NoiseCells] :
          builder' = [builder EXCEPT
                         !.noise_areas = generate_voronoi_spawn_regions(map, noise)]
    /\ pc' = "built"
    /\ UNCHANGED <<map, start_idx, exit_idx, input, vorVars, wfcVars, returned>>

NextWfc ==
    \/ WfcPatterns
    \/ WfcNewSolver
    \/ SolverIteration
    \/ WfcBreak
    \/ WfcStartSearch
    \/ WfcPrune
    \/ WfcRegions

SpecWfc == InitWfc /\ [][NextWfc]_vars

\* The slots that the worklist holds.
Outstanding == {remaining[k][1] : k \in 1 .. Len(remaining)}

\* C18: the retry loop is left only after a run that ended with possible
\* set and every slot Filled; every attempt starts from a Solver with all
\* slots Empty and every slot in the worklist, and during an attempt the
\* Filled slots are those that left the worklist of that attempt.
C18_RetryLoop ==
    /\ [](pc = "wfc_left" =>
            /\ possible
            /\ \A s \in Slots : Filled(s))
    /\ [](pc = "solving" =>
            /\ possible
            /\ \A s \in Slots : Filled(s) <=> s \notin Outstanding)
    /\ [][pc = "wfc_loop" /\ pc' = "solving" =>
            /\ possible'
            /\ \A k \in 1 .. Len(chunks') : chunks'[k] = None
            /\ {remaining'[k][1] : k \in 1 .. Len(remaining')} = Slots]_vars

\* The loop is left on a later attempt, after a contradiction.
C18_Witness ==
    /\ pc = "wfc_left"
    /\ builder.attempts >= 2
    /\ possible
    /\ \A s \in Slots : Filled(s)


\* ------------------------------------------------- claims on the membership
\* The least distance from the tile at (x, y) to a seed.
NearestTo(x, y) ==
    \A s \in 1 .. Len(voronoi_seeds) :
        \A i \in {xy_idx(map, x, y)} :
            distance2d(distance_algorithm, x, y, voronoi_seeds[voronoi_membership[i] + 1])
              <= distance2d(distance_algorithm, x, y, voronoi_seeds[s])

\* C21: after the membership loop the tile with index i, at
\* (i mod width, i div width), belongs to a seed at the least distance from it.
C21_NearestSeed ==
    pc \in {"vor_carve", "vor_prune", "vor_stairs", "vor_regions", "built"} =>
        \A i \in Indices(map) : NearestTo(i % map.width, i \div map.width)

\* The cardinal neighbours of an interior tile, by region.
Cardinals(i) == {i - 1, i + 1, i - map.width, i + map.width}
SameRegion(i) == {n \in Cardinals(i) : voronoi_membership[n] = voronoi_membership[i]}
OtherRegion(i) == {n \in Cardinals(i) : voronoi_membership[n] # voronoi_membership[i]}
InteriorTiles ==
    {i \in Indices(map) : /\ 1 <= i % map.width /\ i % map.width < map.width - 1
                          /\ 1 <= i \div map.width /\ i \div map.width < map.height - 1}

\* C22 as stated: an interior tile is carved exactly when fewer than 2 of
\* its cardinal neighbours are of its own region.
C22_CarvedWhenFewSame ==
    pc = "vor_prune" =>
        \A i \in InteriorTiles :
            map.tiles[i] = Floor <=> Cardinality(SameRegion(i)) < 2

\* C22: an interior tile is carved exactly when fewer than 2 of its cardinal
\* neighbours are of another region.
C22_CarvedWhenFewOther ==
    pc = "vor_prune" =>
        \A i \in InteriorTiles :
            map.tiles[i] = Floor <=> Cardinality(OtherRegion(i)) < 2

\* A carving that turned some interior tiles into Floor and left others.
C22_Witness ==
    /\ pc = "vor_prune"
    /\ \E i, j \in InteriorTiles :
          /\ map.tiles[i] = Floor /\ Cardinality(OtherRegion(i)) = 1
          /\ map.tiles[j] = Wall /\ Cardinality(OtherRegion(j)) = 2


\* -------------------------------------------------------------- MazeBuilder
\* <<MAP_WIDTH, MAP_HEIGHT>>; the cell grid has (width / 2) - 2 columns and
\* (height / 2) - 2 rows, 38 x 19 in the source.
MazeShapes == {<<10, 8>>, <<10, 10>>, <<8, 12>>, <<6, 6>>}

TOP == 0
RIGHT == 1
BOTTOM == 2
LEFT == 3

\* Cell::new
CellNew(row, column) ==
    [ row |-> row, column |-> column,
      walls |-> [w \in 0 .. 3 |-> TRUE], visited |-> FALSE ]

\* Grid::new: the cells row by row.
GridNew(width, height) ==
    [ width |-> width, height |-> height,
      cells |-> [k \in 1 .. (width * height) |->
                    CellNew((k - 1) \div width, (k - 1) % width)],
      backtrace |-> <<>>,
      current |-> 0 ]

calculate_index(g, row, column) ==
    IF row < 0 \/ column < 0 \/ column > g.width - 1 \/ row > g.height - 1
    THEN -1
    ELSE column + (row * g.width)

\* The unvisited neighbours of the current cell: top, right, bottom, left.
get_available_neighbours(g) ==
    LET current_row == At(g.cells, g.current).row
        current_column == At(g.cells, g.current).column
        neighbour_indices ==
            << calculate_index(g, current_row - 1, current_column),
               calculate_index(g, current_row, current_column + 1),
               calculate_index(g, current_row + 1, current_column),
               calculate_index(g, current_row, current_column - 1) >>
        keep(i) == i # -1 /\ ~At(g.cells, i).visited
        pick(k) == IF keep(neighbour_indices[k]) THEN <<neighbour_indices[k]>> ELSE <<>>
    IN  pick(1) \o pick(2) \o pick(3) \o pick(4)

\* The results find_next_cell can give: None, the only neighbour, or any of
\* them by the roll.
find_next_cell(g) ==
    LET neighbours == get_available_neighbours(g)
    IN  IF Len(neighbours) = 0 THEN {None}
        ELSE IF Len(neighbours) = 1 THEN {Some(neighbours[1])}
        ELSE {Some(neighbours[k]) : k \in 1 .. Len(neighbours)}

\* A variant that opens the wall of the first cell only.
remove_walls_one_sided(self, next) ==
    LET x == self.column - next.column
        y == self.row - next.row
    IN  IF x = 1 THEN << [self EXCEPT !.walls[LEFT] = FALSE], next >>
        ELSE IF x = -1 THEN << [self EXCEPT !.walls[RIGHT] = FALSE], next >>
        ELSE IF y = 1 THEN << [self EXCEPT !.walls[TOP] = FALSE], next >>
        ELSE IF y = -1 THEN << [self EXCEPT !.walls[BOTTOM] = FALSE], next >>
        ELSE << self, next >>

\* Cell::remove_walls: the two cells after the call.
remove_walls(self, next) ==
    LET x == self.column - next.column
        y == self.row - next.row
    IN  IF x = 1
        THEN << [self EXCEPT !.walls[LEFT] = FALSE], [next EXCEPT !.walls[RIGHT] = FALSE] >>
        ELSE IF x = -1
        THEN << [self EXCEPT !.walls[RIGHT] = FALSE], [next EXCEPT !.walls[LEFT] = FALSE] >>
        ELSE IF y = 1
        THEN << [self EXCEPT !.walls[TOP] = FALSE], [next EXCEPT !.walls[BOTTOM] = FALSE] >>
        ELSE IF y = -1
        THEN << [self EXCEPT !.walls[BOTTOM] = FALSE], [next EXCEPT !.walls[TOP] = FALSE] >>
        ELSE << self, next >>

\* The Some(next) arm of generate_maze: cell1 is the cell of the lower index.
maze_advance(g, next) ==
    LET lo == Min2(g.current, next)
        hi == Max2(g.current, next)
        visited == [g.cells EXCEPT ![next + 1].visited = TRUE]
        pair == remove_walls(At(visited, lo), At(visited, hi))
    IN  [g EXCEPT !.cells = [visited EXCEPT ![lo + 1] = pair[1], ![hi + 1] = pair[2]],
                  !.backtrace = Append(g.backtrace, g.current),
                  !.current = next]

\* Grid::copy_to_map
copy_to_map(g, m) ==
    LET centre(k) == xy_idx(m, (g.cells[k].column + 1) * 2, (g.cells[k].row + 1) * 2)
        open == UNION {
            {centre(k)}
              \cup (IF ~g.cells[k].walls[TOP] THEN {centre(k) - m.width} ELSE {})
              \cup (IF ~g.cells[k].walls[RIGHT] THEN {centre(k) + 1} ELSE {})
              \cup (IF ~g.cells[k].walls[BOTTOM] THEN {centre(k) + m.width} ELSE {})
              \cup (IF ~g.cells[k].walls[LEFT] THEN {centre(k) - 1} ELSE {})
            : k \in 1 .. Len(g.cells) }
    IN  [m EXCEPT !.tiles = [i \in DOMAIN m.tiles |->
                                IF i \in open THEN Floor ELSE Wall]]

InitMaze ==
    /\ pc = "maze_start"
    /\ \E shape \in MazeShapes : map = MapNew(shape[1], shape[2], Void)
    /\ start_idx = 0
    /\ exit_idx = 0
    /\ input = [ width |-> map.width, height |-> map.height ]
    /\ \E feature \in BOOLEAN :
          builder = [ grid |-> <<>>, noise_areas |-> [k \in {} |-> <<>>],
                      mapgen_visualiser |-> feature, i |-> 0 ]
    /\ returned = <<>>
    /\ VorIdle
    /\ WfcIdle

\* build() up to generate_maze: Grid::new.
MazeGridNew ==
    /\ pc = "maze_start"
    /\ builder' = [builder EXCEPT
                      !.grid = GridNew((map.width \div 2) - 2, (map.height \div 2) - 2)]
    /\ pc' = "maze_loop"
    /\ UNCHANGED <<map, start_idx, exit_idx, input, vorVars, wfcVars, returned>>

\* The end of a pass that did not break, in a build with the feature
\* mapgen_visualiser: every 50th pass, the first included, copies the cell
\* grid g to the map; i counts the passes. The default build compiles none
\* of it.
maze_snapshot(b, g, m) ==
    IF b.mapgen_visualiser
    THEN [ map |-> IF b.i % 50 = 0 THEN copy_to_map(g, m) ELSE m, i |-> b.i + 1 ]
    ELSE [ map |-> m, i |-> b.i ]

\* One pass of the loop of generate_maze; the pass that breaks goes on to
\* copy_to_map.
MazeStep ==
    /\ pc = "maze_loop"
    /\ LET g == [builder.grid EXCEPT !.cells[builder.grid.current + 1].visited = TRUE]
       IN  \E next \in find_next_cell(g) :
             IF next # None
             THEN LET g2 == maze_advance(g, next[1])
                  IN  /\ builder' = [builder EXCEPT
                                         !.grid = g2,
                                         !.i = maze_snapshot(builder, g2, map).i]
                      /\ map' = maze_snapshot(builder, g2, map).map
                      /\ UNCHANGED pc
             ELSE IF g.backtrace = <<>>
             THEN /\ builder' = [builder EXCEPT !.grid = g]
                  /\ map' = copy_to_map(g, map)
                  /\ pc' = "maze_done"
             ELSE LET g2 == [g EXCEPT !.current = g.backtrace[1],
                                      !.backtrace = Tail(g.backtrace)]
                  IN  /\ builder' = [builder EXCEPT
                                         !.grid = g2,
                                         !.i = maze_snapshot(builder, g2, map).i]
                      /\ map' = maze_snapshot(builder, g2, map).map
                      /\ UNCHANGED pc
    /\ UNCHANGED <<start_idx, exit_idx, input, vorVars, wfcVars, returned>>

\* The starting position, the pruning and the stairs.
MazePrune ==
    /\ pc = "maze_done"
    /\ start_idx' = xy_idx(map, 2, 2)
    /\ \E zero \in BOOLEAN :
         LET r == remove_unreachable_areas_returning_most_distant(map, start_idx', zero)
         IN  /\ exit_idx' = r.exit
             /\ map' = [r.map EXCEPT !.tiles[r.exit] = DownStairs]
    /\ pc' = "maze_regions"
    /\ UNCHANGED <<input, vorVars, wfcVars, auxVars>>

\* The spawn regions, the last statement of build().
MazeRegions ==
    /\ pc = "maze_regions"
    /\ \E noise \in MazeNoise(map) :
          builder' = [builder EXCEPT
                         !.noise_areas = generate_voronoi_spawn_regions(map, noise)]
    /\ pc' = "built"
    /\ UNCHANGED <<map, start_idx, exit_idx, input, vorVars, wfcVars, returned>>

NextMaze ==
    \/ MazeGridNew
    \/ MazeStep
    \/ MazePrune
    \/ MazeRegions

SpecMaze == InitMaze /\ [][NextMaze]_vars

\* generate_maze is a loop without any wait: its next pass is always taken.
SpecMazeLive == SpecMaze /\ WF_vars(MazeGridNew) /\ WF_vars(MazeStep)

\* The removed walls of a finished cell grid, as pairs of cell indices.
MazeCells == 0 .. (Len(builder.grid.cells) - 1)
MazeCell(c) == builder.grid.cells[c + 1]
RightOf(c) == calculate_index(builder.grid, MazeCell(c).row, MazeCell(c).column + 1)
BelowOf(c) == calculate_index(builder.grid, MazeCell(c).row + 1, MazeCell(c).column)
LeftOf(c) == calculate_index(builder.grid, MazeCell(c).row, MazeCell(c).column - 1)
AboveOf(c) == calculate_index(builder.grid, MazeCell(c).row - 1, MazeCell(c).column)

RemovedWalls ==
    {<<c, RightOf(c)>> : c \in {c \in MazeCells : ~MazeCell(c).walls[RIGHT]}}
      \cup {<<c, BelowOf(c)>> : c \in {c \in MazeCells : ~MazeCell(c).walls[BOTTOM]}}

WallsSymmetric ==
    \A c \in MazeCells :
        /\ IF RightOf(c) = -1 THEN MazeCell(c).walls[RIGHT]
           ELSE MazeCell(c).walls[RIGHT] = MazeCell(RightOf(c)).walls[LEFT]
        /\ IF BelowOf(c) = -1 THEN MazeCell(c).walls[BOTTOM]
           ELSE MazeCell(c).walls[BOTTOM] = MazeCell(BelowOf(c)).walls[TOP]
        /\ LeftOf(c) = -1 => MazeCell(c).walls[LEFT]
        /\ AboveOf(c) = -1 => MazeCell(c).walls[TOP]

\* The cells joined to the cells of seen through removed walls.
RECURSIVE MazeReach(_)
MazeReach(seen) ==
    LET more == {c \in MazeCells \ seen :
                    \E s \in seen : <<s, c>> \in RemovedWalls \/ <<c, s>> \in RemovedWalls}
    IN  IF more = {} THEN seen ELSE MazeReach(seen \cup more)

\* C23: generate_maze terminates, and then every cell is visited, the walls
\* are removed on both sides, and the removed walls are a spanning tree of
\* the cell grid.
C23_PerfectMaze ==
    /\ <>(pc \notin {"maze_start", "maze_loop"})
    /\ [](pc \notin {"maze_start", "maze_loop"} =>
            /\ \A c \in MazeCells : MazeCell(c).visited
            /\ WallsSymmetric
            /\ MazeReach({0}) = MazeCells
            /\ Cardinality(RemovedWalls) = Cardinality(MazeCells) - 1)

\* A finished maze whose carving had to go back along the backtrace.
C23_Witness ==
    /\ pc = "maze_done"
    /\ Cardinality(MazeCells) >= 6
    /\ \E c \in MazeCells :
          Cardinality({w \in 0 .. 3 : ~MazeCell(c).walls[w]}) >= 3


\* C24: the start search of the WFC-derived build ends on a Floor tile of
\* the centre row at a column from 0 to width / 2, and never leaves the row.
C24_StartSearchStaysInRow ==
    /\ pc # "panicked"
    /\ pc \in {"wfc_prune", "wfc_regions", "built"} =>
          /\ start_idx \div map.width = map.height \div 2
          /\ start_idx % map.width <= map.width \div 2
          /\ pc = "wfc_prune" => map.tiles[start_idx] = Floor


\* The place of the slot s in the worklist, and its filled neighbours.
PlaceOf(rem, s) == CHOOSE k \in 1 .. Len(rem) : rem[k][1] = s
FilledCount(s) == Cardinality(FilledFacing(s))

\* C25: when an outstanding slot has a filled neighbour, the slot taken has
\* the greatest count of filled neighbours among the outstanding slots, and
\* no slot before it in the worklist has the same count.
C25_MostConstrainedFirst ==
    [][\A s \in Slots :
          (Chosen(s) /\ \E t \in WorkSet(remaining) : FilledCount(t) > 0) =>
              \A k \in 1 .. Len(remaining) :
                  /\ FilledCount(remaining[k][1]) <= FilledCount(s)
                  /\ k < PlaceOf(remaining, s) =>
                        FilledCount(remaining[k][1]) < FilledCount(s)]_vars

\* A worklist that a call has put out of slot order: a later slot with more
\* filled neighbours stands before an earlier one, and a slot has been taken
\* from its head since.
C25_Witness ==
    /\ pc = "solving"
    /\ Cardinality({s \in Slots : Filled(s)}) >= 2
    /\ \E j, k \in 1 .. Len(remaining) :
          /\ j < k
          /\ remaining[j][1] > remaining[k][1]
          /\ remaining[j][2] > remaining[k][2]


\* -------------------------------------------- the gathering of the options
\* <<width, height, chunk_size>> of the Grids of the gathering runs
GatherShapes == {<<6, 6, 2>>}
\* The slots gathered for: two opposite corners and the centre of the 3 x 3.
GatherSlots == {0, 4, 8}

\* The slots next to the slot s.
NextTo(s) == {n[1] : n \in Facing(s)}

\* A Solver in the middle of a run, about to gather for the slot input.slot:
\* the slot is outstanding and some of its neighbours are filled.
InitGather ==
    /\ pc = "gather_call"
    /\ \E shape \in GatherShapes :
          /\ map = MapNew(shape[1], shape[2], Wall)
          /\ chunk_size = shape[3]
    /\ patterns \in PatternTables(chunk_size)
    /\ constraints = patterns_to_constraints(patterns, chunk_size)
    /\ \E s \in GatherSlots :
          /\ input = [ slot |-> s ]
          /\ \E stored \in [NextTo(s) ->
                                {None} \cup {Some(p) : p \in 0 .. (Len(patterns) - 1)}] :
                chunks = [k \in 1 .. Cardinality(Slots) |->
                             IF (k - 1) \in NextTo(s) THEN stored[k - 1] ELSE None]
    /\ remaining = SelectSeq(SolverNew(map, chunk_size).remaining,
                             LAMBDA r : chunks[r[1] + 1] = None /\ r[1] # input.slot)
    /\ possible = TRUE
    /\ start_idx = 0
    /\ exit_idx = 0
    /\ VorIdle
    /\ AuxIdle

\* The gathering of iteration for the slot taken off the worklist.
GatherCall ==
    /\ pc = "gather_call"
    /\ returned' = gather_options(constraints, chunks, map, chunk_size,
                                  input.slot % chunks_x(map, chunk_size),
                                  input.slot \div chunks_x(map, chunk_size))
    /\ pc' = "gathered"
    /\ UNCHANGED <<map, start_idx, exit_idx, input, vorVars, wfcVars, builder>>

NextGather == GatherCall

SpecGather == InitGather /\ [][NextGather]_vars

\* The list that the filled neighbour n[1] gives: the list of the pattern it
\* stores for its side n[2] that faces the slot (1 north, 2 south, 3 west,
\* 4 east; compatible_with is indexed from 0 in the source).
FacingList(n) == constraints[PlacedAt(n[1]) + 1].compatible_with[n[2]]

\* C26: the gathered lists are those of the filled neighbours for the sides
\* that face the slot, one list per filled neighbour and no other list.
C26_FacingLists ==
    pc = "gathered" =>
        /\ Len(returned) = Cardinality(FilledFacing(input.slot))
        /\ \A n \in FilledFacing(input.slot) :
              \E k \in 1 .. Len(returned) : returned[k] = FacingList(n)
        /\ \A k \in 1 .. Len(returned) :
              \E n \in FilledFacing(input.slot) : returned[k] = FacingList(n)

\* A gathering of four lists that are not all the same, one of which differs
\* from the list of the far side of the same neighbour.
C26_Witness ==
    /\ pc = "gathered"
    /\ Len(returned) = 4
    /\ \E j, k \in 1 .. 4 : returned[j] # returned[k]
    /\ \E n \in FilledFacing(input.slot) :
          FacingList(n) # constraints[PlacedAt(n[1]) + 1].compatible_with[
                              opposite(n[2] - 1) + 1]


\* ------------------------------------------------ pruning of long corridors
\* <<width, height>> of the Grids with one straight corridor
LongShapes == {<<203, 2>>}
\* The lengths of the corridor, in tiles.
CorridorLengths == 140 .. 202

\* A Grid of Wall whose row 1 is Floor from column 1 to column len.
CorridorGrid(w, h, len) ==
    [MapNew(w, h, Wall) EXCEPT
        !.tiles = [i \in 0 .. (w * h - 1) |->
                      IF i \div w = 1 /\ 1 <= i % w /\ i % w <= len
                      THEN Floor ELSE Wall]]

\* The pruning called at the west end of the corridor.
InitPruneLong ==
    /\ pc = "prune_call"
    /\ \E shape \in LongShapes, len \in CorridorLengths :
          map = CorridorGrid(shape[1], shape[2], len)
    /\ start_idx = xy_idx(map, 1, 1)
    /\ exit_idx = 0
    /\ input = [map |-> map, start |-> start_idx]
    /\ VorIdle
    /\ WfcIdle
    /\ AuxIdle

SpecPruneLong == InitPruneLong /\ [][NextPrune]_vars

\* The walkable tiles next to tile i, in the eight directions.
WalkableNextTo(m, i) ==
    {j \in {(i + dx) + (dy * m.width) : dx \in {-1, 0, 1}, dy \in {-1, 0, 1}} :
        /\ j \in Indices(m)
        /\ Adjacent8(m, i, j)
        /\ m.tiles[j] \notin {Wall, Void}}

\* The tiles that a path of walkable tiles from the frontier can visit.
RECURSIVE WalkReach(_, _, _)
WalkReach(m, frontier, seen) ==
    LET more == UNION {WalkableNextTo(m, i) : i \in frontier} \ seen
    IN  IF more = {} THEN seen ELSE WalkReach(m, more, seen \cup more)

\* C27: the pruning turns a Floor tile into Wall only if no 8-directional
\* path of walkable tiles leads to it from the start tile, whatever the cost
\* of the path.
C27_OnlyUnconnectedPruned ==
    pc = "pruned" =>
        \A i \in Indices(map) :
            (input.map.tiles[i] = Floor /\ map.tiles[i] = Wall) =>
                i \notin WalkReach(input.map, {start_idx}, {start_idx})


\* C28: B is listed in A.compatible_with[D] exactly when A is listed in
\* B.compatible_with[opposite(D)].
C28_TablesSymmetric ==
    pc = "pat_constrained" =>
        \A a, b \in 0 .. (Len(constraints) - 1) : \A d \in 1 .. 4 :
            Listed(a, d, b) <=> Listed(b, FacingSide(d), a)


\* The tiles of the outer border of the Grid.
BorderTiles ==
    {i \in Indices(map) : \/ i % map.width = 0 \/ i % map.width = map.width - 1
                          \/ i \div map.width = 0 \/ i \div map.width = map.height - 1}

\* C29: the Grid of a finished WFC-derived build has no Floor and no
\* DownStairs tile on its outer border.
C29_BorderClosed ==
    pc \in {"wfc_regions", "built"} =>
        \A i \in BorderTiles : map.tiles[i] \notin {Floor, DownStairs}


\* ------------------------------------------------- a Solver run, call by call
\* `while !solver.iteration(..) {}` on a new Solver, with the calls counted.
InitSolverRun ==
    /\ SolverStart
    /\ builder = [ calls |-> 0 ]
    /\ returned = <<>>

SolverCall ==
    /\ SolverStep
    /\ builder' = [builder EXCEPT !.calls = @ + 1]
    /\ UNCHANGED returned

NextSolverRun == SolverCall

SpecSolverRun == InitSolverRun /\ [][NextSolverRun]_vars

\* C30: a run is over after at most N + 1 calls for N slots: no call beyond the
\* N-th leaves the Solver unfinished, and the worklist never holds a Filled slot
\* or a slot twice.
C30_RunTerminates ==
    /\ pc = "solving" => builder.calls <= Cardinality(Slots)
    /\ pc = "solved" => builder.calls <= Cardinality(Slots) + 1
    /\ \A k \in 1 .. Len(remaining) : ~Filled(remaining[k][1])
    /\ \A j, k \in 1 .. Len(remaining) :
          j # k => remaining[j][1] # remaining[k][1]

\* A run that filled every slot and was told so by call N + 1.
C30_Witness ==
    /\ pc = "solved"
    /\ possible
    /\ builder.calls = Cardinality(Slots) + 1
    /\ \A s \in Slots : Filled(s)

====
